---------------------------- MODULE Spec2Model ----------------------------
(***************************************************************************)
(* A model of the LoreKeeper map core (src/map): the seeded generation     *)
(* pipeline (MapGenerator -> TerrainGenerator, RiverGenerator,             *)
(* StateGenerator, CityGenerator, RoadGenerator), the interactive tools    *)
(* (ToolManager), the two editors (MapCanvas dialog, Sidebar forms) and    *)
(* MapPersistence.                                                         *)
(*                                                                         *)
(* Numbers.  Heights, moisture and brush intensities are fixed-point, in   *)
(* thousandths (0.2 is 200).  A PRNG draw r in [0,1) is kept in hundredths *)
(* (0.85 is 85).  Cell heights live in a Float32Array: a stored height is  *)
(* a float32, the literal it is compared with is a double (see F32Lt).     *)
(***************************************************************************)
EXTENDS Integers, Sequences, FiniteSets, TLC

VARIABLES
    map,          \* the live World of the UI store (useUIStore().map), or NoMap
    storage,      \* localStorage['lorekeeper_map_data']: a payload, or NoData
    noiseCache,   \* TerrainGenerator.noise2D / lastSeed (static fields)
    ui,           \* the UI store's settings and MapCanvas' isDragging
    dialog,       \* MapCanvas' editingElement, or NoElement
    form,         \* the Sidebar's editingEntity and editForm, or NoEntity
    budget,       \* how many placements, paint samples, edits, generations so far
    last,         \* the operation that led to this state and the map before it
    pc,           \* position of the generation pipeline / the session
    gen           \* locals of the generation in progress

vars == <<map, storage, noiseCache, ui, dialog, form, budget, last, pc, gen>>

---------------------------------------------------------------------------
(* Small helpers *)

Max(a, b) == IF a >= b THEN a ELSE b
Min(a, b) == IF a <= b THEN a ELSE b
Abs(a) == IF a >= 0 THEN a ELSE -a

Range(s) == {s[i] : i \in DOMAIN s}

RECURSIVE ISqrtIn(_, _, _)
ISqrtIn(n, lo, hi) ==
    IF lo >= hi THEN lo
    ELSE LET mid == (lo + hi + 1) \div 2
         IN IF mid * mid <= n THEN ISqrtIn(n, mid, hi) ELSE ISqrtIn(n, lo, mid - 1)
\* floor of the square root (Math.sqrt, to the model's resolution); the
\* search stays below the root of the largest integer
ISqrt(n) == ISqrtIn(n, 0, Min(n, 46340))

SelectSeqIdx(s, Test(_)) ==
    LET F[i \in 0..Len(s)] ==
            IF i = 0 THEN <<>>
            ELSE LET acc == F[i - 1]
                 IN IF Test(i) THEN Append(acc, s[i]) ELSE acc
    IN F[Len(s)]

\* s without its element at index i (Array.prototype.splice(i - 1, 1))
RemoveAt(s, i) == SubSeq(s, 1, i - 1) \o SubSeq(s, i + 1, Len(s))

---------------------------------------------------------------------------
(* The mesh.  MapGenerator draws numCells random points and hands them to  *)
(* d3-delaunay; the model fixes one such outcome: twelve points in three   *)
(* rows around the centre of a 180 x 180 domain, 6 apart in x and 8 apart  *)
(* in y, so that every distance up to 12 between two points is an integer. *)
(*                                                                         *)
(*        0 --- 1 --- 2 --- 3         y = 82                               *)
(*        |   / |   / |   / |                                              *)
(*        4 --- 5 --- 6 --- 7         y = 90                               *)
(*        |   / |   / |   / |                                              *)
(*        8 --- 9 --- 10 -- 11        y = 98                               *)
(*      x=81   87    93    99                                              *)

Columns == 4
Rows == 3

Cells == 0..(Columns * Rows - 1)

NoCell == -1    \* "no located cell" (ToolEvent.cellId === -1, bestCellId = -1)

\* width and height handed to MapGenerator.generate (the canvas size)
Domain == [width |-> 180, height |-> 180]

\* map.points as pairs: PointOf[i] is <<points[2i], points[2i+1]>>
PointOf == [i \in Cells |-> <<81 + 6 * (i % Columns), 82 + 8 * (i \div Columns)>>]

\* map.points, the flat coordinate buffer [x0, y0, x1, y1, ...]
FlatPoints == [k \in 1..(2 * Cardinality(Cells)) |-> PointOf[(k - 1) \div 2][((k - 1) % 2) + 1]]

\* the cells in ascending id order (for (let i = 0; i < numCells; i++))
CellSeq == [k \in 1..Cardinality(Cells) |-> k - 1]

\* the steps <<dcol, drow>> to the neighbours of a point in the
\* triangulation, in the order delaunay.neighbors yields them
NeighborSteps == << <<-1, 0>>, <<1, 0>>, <<0, -1>>, <<0, 1>>, <<1, -1>>, <<-1, 1>> >>

\* delaunay.neighbors(i): the triangulation's neighbours, in iteration order
DelaunayNeighbors ==
    [i \in Cells |->
        LET col == i % Columns
            row == i \div Columns
            ok == SelectSeq(NeighborSteps,
                            LAMBDA d : /\ col + d[1] \in 0..(Columns - 1)
                                       /\ row + d[2] \in 0..(Rows - 1))
        IN [k \in 1..Len(ok) |-> (row + ok[k][2]) * Columns + col + ok[k][1]]]

\* voronoi.neighbors(i): the Delaunay neighbours whose cells share an edge.
\* The four corners of a grid square lie on one circle, so the cells of a
\* diagonal pair meet in a point only and are not Voronoi neighbours.
VoronoiNeighbors ==
    [i \in Cells |->
        SelectSeq(DelaunayNeighbors[i],
                  LAMBDA j : PointOf[i][1] = PointOf[j][1] \/ PointOf[i][2] = PointOf[j][2])]

\* (x2 - x1) ** 2 + (y2 - y1) ** 2
DistSq(i, j) ==
    (PointOf[j][1] - PointOf[i][1]) * (PointOf[j][1] - PointOf[i][1])
  + (PointOf[j][2] - PointOf[i][2]) * (PointOf[j][2] - PointOf[i][2])

\* the sum of coordinate d (1 for x, 2 for y) over the points of the cells in S
SumCells(S, d) ==
    LET F[k \in 0..Len(CellSeq)] ==
            IF k = 0 THEN 0
            ELSE F[k - 1] + (IF CellSeq[k] \in S THEN PointOf[CellSeq[k]][d] ELSE 0)
    IN F[Len(CellSeq)]

---------------------------------------------------------------------------
(* Heights are elements of a Float32Array.  The model keeps the height     *)
(* k/1000 as the integer k, standing for the float32 nearest to k/1000.    *)
(* The code compares a stored height with a double literal, and no float32 *)
(* equals the doubles 0.2, 0.6, 0.8 or 0.95: the float32 nearest to 0.2,   *)
(* 0.6 and 0.8 lies above the literal, the one nearest to 0.95 below it;   *)
(* 0, 0.25 and 1 are float32 values.                                       *)

HeightUnit == 1000      \* the height 1.0

SeaLevel == 200         \* 0.2
BeachLevel == 250       \* 0.25
MountainLevel == 600    \* 0.6
SnowLevel == 800        \* 0.8
PeakLevel == 950        \* 0.95

\* literals whose nearest float32 is greater / smaller than the literal
F32RoundsUp == {SeaLevel, MountainLevel, SnowLevel}
F32RoundsDown == {PeakLevel}

\* heights[i] < lit
F32Lt(h, lit) == h < lit \/ (h = lit /\ lit \in F32RoundsDown)
\* heights[i] <= lit
F32Le(h, lit) == h < lit \/ (h = lit /\ lit \notin F32RoundsUp)
\* heights[i] > lit
F32Gt(h, lit) == ~F32Le(h, lit)
\* heights[i] >= lit
F32Ge(h, lit) == ~F32Lt(h, lit)

---------------------------------------------------------------------------
(* The seeded PRNG (alea) and the noise provider (simplex-noise) are       *)
(* external.  Draw(seed, k) is the k-th draw of createSeededRandom(seed):  *)
(* some fixed function of the seed and the position.  A generator reads a  *)
(* stream from a position on and returns the position it reached.          *)

DefaultSeed == 12345    \* mapSeed: 12345
Seeds == {DefaultSeed, 8}   \* the map seeds a session types in (setMapSeed)

\* the k-th value of Alea(seed), in hundredths
Draw(seed, k) == (17 * seed + 41 * k + 7 * seed * k + 3 * k * k) % 100

\* Math.floor(prng() * n)
FloorMul(r, n) == (r * n) \div 100

\* createNoise2D(prng) in MapGenerator: noise2D(x / 500, y / 500) * 0.5 + 0.5
\* at the cells' points
BaseHeight(seed) ==
    CASE seed % 5 = 0 ->
           [i \in Cells |-> <<800, 722, 720, 600, 925, 985, 984, 375, 949, 950, 959, 199>>[i + 1]]
      [] seed % 5 = 1 ->
           [i \in Cells |-> <<800, 572, 170, 500, 725, 265, 4, 375, 899, 270, 219, 359>>[i + 1]]
      [] seed % 5 = 2 ->
           [i \in Cells |-> <<800, 722, 720, 700, 925, 975, 984, 275, 949, 950, 959, 249>>[i + 1]]
      [] seed % 5 = 3 ->
           [i \in Cells |-> <<400, 472, 570, 710, 775, 825, 924, 985, 989, 890, 789, 719>>[i + 1]]
      [] OTHER ->
           [i \in Cells |-> <<400, 332, 320, 200, 275, 265, 4, 55, 79, 170, 119, 79>>[i + 1]]

\* the island mask of MapGenerator: dist * 1.5 with nx = x / width - 0.5
MaskDrop(i) ==
    LET nx == (HeightUnit * PointOf[i][1]) \div Domain.width - HeightUnit \div 2
        ny == (HeightUnit * PointOf[i][2]) \div Domain.height - HeightUnit \div 2
    IN (3 * ISqrt(nx * nx + ny * ny)) \div 2

\* heights[i] = Math.max(0, baseHeight - dist * 1.5)
GenerateHeights(seed) == [i \in Cells |-> Max(0, BaseHeight(seed)[i] - MaskDrop(i))]

NoNoise == 0            \* TerrainGenerator.noise2D = null
NoSeed == 0             \* TerrainGenerator.lastSeed = null

\* A noise function built by createNoise2D(createSeededRandom(s)) is named by
\* s; NoiseAt(s, i) is noise(x / 800, y / 800) * 0.5 + 0.5 at cell i's point
NoiseAt(s, i) == (137 * s + 211 * i) % 1000

---------------------------------------------------------------------------
(* TerrainGenerator *)

BiomeType == [OCEAN |-> 0, BEACH |-> 1, GRASSLAND |-> 2, FOREST |-> 3,
              DENSE_FOREST |-> 4, MOUNTAIN |-> 5, SNOW |-> 6, DESERT |-> 7,
              SWAMP |-> 8, TUNDRA |-> 9]

BiomeIds == 0..9

\* getNoise(seed) returning the stale cached noise whatever the seed
GetNoiseNoSeedCheck(cache, seed) ==
    IF cache.noise2D # NoNoise
    THEN cache
    ELSE [noise2D |-> seed + 1, lastSeed |-> seed]

\* getNoise(seed): the cache after the call; its noise2D is what is returned
GetNoise(cache, seed) ==
    IF cache.noise2D # NoNoise /\ cache.lastSeed = seed
    THEN cache
    ELSE [noise2D |-> seed + 1, lastSeed |-> seed]

\* the classification with heights[i] <= 0.25 for the beach
BiomeBeachInclusive(height, moisture) ==
    IF F32Lt(height, SeaLevel) THEN BiomeType.OCEAN
    ELSE IF F32Le(height, BeachLevel) THEN BiomeType.BEACH
    ELSE IF F32Gt(height, SnowLevel) THEN BiomeType.SNOW
    ELSE IF F32Gt(height, MountainLevel) THEN BiomeType.MOUNTAIN
    ELSE IF moisture > 700 THEN BiomeType.DENSE_FOREST
    ELSE IF moisture > 400 THEN BiomeType.FOREST
    ELSE IF moisture < 150 THEN BiomeType.DESERT
    ELSE BiomeType.GRASSLAND

\* the biome updateCellBiome assigns, from the height and the moisture
Biome(height, moisture) ==
    IF F32Lt(height, SeaLevel) THEN BiomeType.OCEAN
    ELSE IF F32Lt(height, BeachLevel) THEN BiomeType.BEACH
    ELSE IF F32Gt(height, SnowLevel) THEN BiomeType.SNOW
    ELSE IF F32Gt(height, MountainLevel) THEN BiomeType.MOUNTAIN
    ELSE IF moisture > 700 THEN BiomeType.DENSE_FOREST
    ELSE IF moisture > 400 THEN BiomeType.FOREST
    ELSE IF moisture < 150 THEN BiomeType.DESERT
    ELSE BiomeType.GRASSLAND

\* updateCellBiome(map, i, noise2D) with the noise given
UpdateCellBiome(cells, i, noise) ==
    [cells EXCEPT !.biomes[i] = Biome(cells.heights[i], NoiseAt(noise, i))]

\* generateBiomes(map, seed): every cell, with getNoise(seed)
GenerateBiomes(cells, cache, seed) ==
    LET noise == GetNoise(cache, seed).noise2D
    IN [cells EXCEPT !.biomes = [i \in Cells |-> Biome(cells.heights[i], NoiseAt(noise, i))]]

---------------------------------------------------------------------------
(* RiverGenerator *)

RiverCount == 30        \* count: number = 30

\* shuffle(array, prng): Fisher-Yates from the last index down; i is 1-based
RECURSIVE ShuffleFrom(_, _, _, _)
ShuffleFrom(arr, i, s, p) ==
    IF i <= 1 THEN [arr |-> arr, pos |-> p]
    ELSE LET j == FloorMul(Draw(s, p + 1), i) + 1
         IN ShuffleFrom([arr EXCEPT ![i] = arr[j], ![j] = arr[i]], i - 1, s, p + 1)

\* shuffle(array, prng) on the stream s read from position p
Shuffle(arr, s, p) == ShuffleFrom(arr, Len(arr), s, p)

\* the for loop of traceRiver starting from no height bound: the lowest
\* unvisited neighbour, above the current cell or not
LowestNeighborUphill(heights, currentId, visited) ==
    LET nbrs == VoronoiNeighbors[currentId]
        F[k \in 0..Len(nbrs)] ==
            IF k = 0 THEN [lowest |-> NoCell, minHeight |-> HeightUnit]
            ELSE LET acc == F[k - 1]
                 IN IF nbrs[k] \in visited THEN acc
                    ELSE IF heights[nbrs[k]] <= acc.minHeight
                         THEN [lowest |-> nbrs[k], minHeight |-> heights[nbrs[k]]]
                         ELSE acc
    IN F[Len(nbrs)].lowest

\* the for loop of traceRiver over voronoi.neighbors(currentId): the lowest
\* unvisited neighbour not above the current cell, the last one among equals
LowestNeighbor(heights, currentId, visited) ==
    LET nbrs == VoronoiNeighbors[currentId]
        F[k \in 0..Len(nbrs)] ==
            IF k = 0 THEN [lowest |-> NoCell, minHeight |-> heights[currentId]]
            ELSE LET acc == F[k - 1]
                 IN IF nbrs[k] \in visited THEN acc
                    ELSE IF heights[nbrs[k]] <= acc.minHeight
                         THEN [lowest |-> nbrs[k], minHeight |-> heights[nbrs[k]]]
                         ELSE acc
    IN F[Len(nbrs)].lowest

\* the while (true) loop of traceRiver
RECURSIVE TraceLoop(_, _, _)
TraceLoop(heights, path, visited) ==
    LET Flow(currentId, lowest) ==
            IF lowest = NoCell \/ lowest = currentId THEN path
            ELSE IF F32Lt(heights[lowest], SeaLevel) THEN Append(path, lowest)
            ELSE TraceLoop(heights, Append(path, lowest), visited \cup {lowest})
    IN Flow(path[Len(path)], LowestNeighbor(heights, path[Len(path)], visited))

\* traceRiver(map, startId): the path of cell ids
TraceRiver(heights, startId) == TraceLoop(heights, <<startId>>, {startId})

\* candidates: high cells, in cell order
RiverCandidates(heights) ==
    SelectSeq(CellSeq,
              LAMBDA i : F32Gt(heights[i], MountainLevel) /\ F32Lt(heights[i], PeakLevel))

\* the acceptance test of a traced path
RiverAccepted(heights, path) ==
    Len(path) > 5 /\ F32Lt(heights[path[Len(path)]], SeaLevel)

\* the while loop of generate: st = [rivers, attempts, created, pos]
RECURSIVE RiverLoop(_, _, _, _)
RiverLoop(heights, candidates, s, st) ==
    IF ~(st.created < RiverCount /\ st.attempts < Len(candidates)) THEN st
    ELSE LET Traced(path) ==
                 IF RiverAccepted(heights, path)
                 THEN RiverLoop(heights, candidates, s,
                        [rivers |-> Append(st.rivers,
                                       [id |-> <<"river", st.created>>,
                                        points |-> [k \in 1..Len(path) |-> PointOf[path[k]]],
                                        width |-> 200 + 2 * Draw(s, st.pos + 1)]),
                         attempts |-> st.attempts + 1,
                         created |-> st.created + 1,
                         pos |-> st.pos + 1])
                 ELSE RiverLoop(heights, candidates, s,
                        [st EXCEPT !.attempts = st.attempts + 1])
         IN Traced(TraceRiver(heights, candidates[st.attempts + 1]))

\* RiverGenerator.generate(map, seed, count): the rivers
GenerateRivers(heights, seed) ==
    LET s == seed + 233
        sh == Shuffle(RiverCandidates(heights), s, 0)
    IN RiverLoop(heights, sh.arr, s,
                 [rivers |-> <<>>, attempts |-> 0, created |-> 0, pos |-> sh.pos]).rivers

---------------------------------------------------------------------------
(* StateGenerator *)

NumStates == 5          \* StateGenerator.generate(map, 5, seed)

STATE_COLORS ==
    <<"#8B4513", "#2E8B57", "#4682B4", "#9932CC", "#CD853F", "#556B2F",
      "#6B8E23", "#8B0000", "#483D8B", "#2F4F4F", "#B8860B", "#008B8B",
      "#704214", "#3B5323", "#1E3A5F">>

NAME_PARTS ==
    [prefixes |-> <<"Nor", "Sou", "Eas", "Wes", "Val", "Mor", "Kar", "Eld",
                    "Ara", "Gor", "Bel", "Cal", "Dra", "Era", "Fen">>,
     middles  |-> <<"an", "el", "or", "ar", "en", "ir", "al", "on", "un", "eth", "ath">>,
     suffixes |-> <<"ia", "or", "and", "heim", "land", "mark", "gor", "dale",
                    "hold", "mere", "dom", "ria", "cia", "via">>]

\* A name is the sequence of the pieces it was concatenated from.
\* generateStateName(prng) on the stream s read from position p
GenerateStateName(s, p) ==
    LET prefix == NAME_PARTS.prefixes[FloorMul(Draw(s, p + 1), Len(NAME_PARTS.prefixes)) + 1]
    IN IF Draw(s, p + 2) > 50
       THEN [name |-> <<prefix,
                        NAME_PARTS.middles[FloorMul(Draw(s, p + 3), Len(NAME_PARTS.middles)) + 1],
                        NAME_PARTS.suffixes[FloorMul(Draw(s, p + 4), Len(NAME_PARTS.suffixes)) + 1]>>,
             pos |-> p + 4]
       ELSE [name |-> <<prefix,
                        NAME_PARTS.suffixes[FloorMul(Draw(s, p + 3), Len(NAME_PARTS.suffixes)) + 1]>>,
             pos |-> p + 3]

\* landCells: the cells above 0.25, in cell order
StateLandCells(heights) == SelectSeq(CellSeq, LAMBDA i : F32Gt(heights[i], BeachLevel))

\* [...landCells].sort(() => prng() - 0.5).  The order a random comparator
\* yields is the engine's; the model takes the insertion sort engines use
\* on short arrays: the element is moved left past tmp while
\* comparefn(tmp, element) > 0, one draw per comparison.
RECURSIVE InsertionPoint(_, _, _)
InsertionPoint(k, s, p) ==
    IF k = 0 THEN [k |-> 0, pos |-> p]
    ELSE IF Draw(s, p + 1) > 50 THEN InsertionPoint(k - 1, s, p + 1)
    ELSE [k |-> k, pos |-> p + 1]

RECURSIVE SortFrom(_, _, _, _)
SortFrom(arr, i, s, p) ==
    IF i > Len(arr) THEN [arr |-> arr, pos |-> p]
    ELSE LET at == InsertionPoint(i - 1, s, p)
             moved == SubSeq(arr, 1, at.k) \o <<arr[i]>> \o SubSeq(arr, at.k + 1, i - 1)
                        \o SubSeq(arr, i + 1, Len(arr))
         IN SortFrom(moved, i + 1, s, at.pos)

SortRandom(arr, s, p) == SortFrom(arr, 2, s, p)

\* the distance test never finding a seed too close
TooCloseNever(cellId, seedCell) == FALSE

\* dist < minDist with minDist = Math.min(width, height) / (numStates * 1.5),
\* both sides squared and cleared of the fraction
TooClose(cellId, seedCell) ==
    LET m == Min(Domain.width, Domain.height)
    IN 9 * NumStates * NumStates * DistSq(cellId, seedCell) < 4 * m * m

\* the for loop over shuffled: stateSeedCells
SelectSeedCells(shuffled) ==
    LET F[k \in 0..Len(shuffled)] ==
            IF k = 0 THEN <<>>
            ELSE LET stateSeedCells == F[k - 1]
                 IN IF Len(stateSeedCells) >= NumStates THEN stateSeedCells
                    ELSE IF \E j \in 1..Len(stateSeedCells) :
                                TooClose(shuffled[k], stateSeedCells[j])
                         THEN stateSeedCells
                         ELSE Append(stateSeedCells, shuffled[k])
    IN F[Len(shuffled)]

\* "Initialize states and assign seed cells": the State records, named from
\* the stream s read from position p
RECURSIVE InitStates(_, _, _, _)
InitStates(seedCells, states, s, p) ==
    IF Len(states) = Len(seedCells) THEN [states |-> states, pos |-> p]
    ELSE LET i == Len(states)
             nm == GenerateStateName(s, p)
         IN InitStates(seedCells,
                       Append(states,
                              [id |-> i + 1,
                               name |-> nm.name,
                               color |-> STATE_COLORS[(i % Len(STATE_COLORS)) + 1],
                               capitalId |-> -1,
                               centerX |-> PointOf[seedCells[i + 1]][1],
                               centerY |-> PointOf[seedCells[i + 1]][2],
                               cellCount |-> 1]),
                       s, nm.pos)

\* The locals of the region growth: cells.states, the states' cellCount,
\* the queues, the for loop's stateIdx (0-based), the flag active, and
\* done once the while loop has exited.
StartGrowth(cellStates, seedCells, states) ==
    [cellStates |-> [i \in Cells |->
                       IF \E k \in 1..Len(seedCells) : seedCells[k] = i
                       THEN CHOOSE k \in 1..Len(seedCells) : seedCells[k] = i
                       ELSE cellStates[i]],
     seedCells |-> seedCells,
     states |-> states,
     queues |-> [k \in 1..Len(seedCells) |-> <<seedCells[k]>>],
     stateIdx |-> 0,
     active |-> FALSE,
     done |-> Len(states) = 0]

\* getNeighbors(cellId, map) taking every cell of the map for a neighbour
GetNeighborsAnywhere(cellId) == CellSeq

\* getNeighbors(cellId, map): [...map.delaunay.neighbors(cellId)]
GetNeighbors(cellId) == DelaunayNeighbors[cellId]

\* the for loop over the neighbours of currentCell, R(k) being the k-th
\* draw it consumes: acc = [cellStates, queue, claimed, active, used, broke]
GrowCell(cellStates, heights, queue, currentCell, stateId, R(_)) ==
    LET nbrs == GetNeighbors(currentCell)
        F[k \in 0..Len(nbrs)] ==
            IF k = 0
            THEN [cellStates |-> cellStates, queue |-> queue, claimed |-> 0,
                  active |-> FALSE, used |-> 0, broke |-> FALSE]
            ELSE LET acc == F[k - 1]
                     n == nbrs[k]
                 IN IF acc.broke THEN acc
                    ELSE IF acc.cellStates[n] # 0 THEN acc
                    ELSE IF F32Le(heights[n], SeaLevel) THEN acc
                    ELSE IF R(acc.used + 1) < 85
                         THEN [acc EXCEPT !.cellStates[n] = stateId,
                                          !.claimed = acc.claimed + 1,
                                          !.queue = Append(acc.queue, n),
                                          !.active = TRUE,
                                          !.used = acc.used + 1]
                         ELSE [acc EXCEPT !.queue = Append(acc.queue, currentCell),
                                          !.active = TRUE,
                                          !.used = acc.used + 1,
                                          !.broke = TRUE]
    IN F[Len(nbrs)]

\* one iteration of the for loop over the states (and, after the last
\* state, the while test): g is the growth's locals
GrowthStep(g, heights, R(_)) ==
    LET k == g.stateIdx + 1
        queue == g.queues[k]
        acc == IF Len(queue) = 0
               THEN [cellStates |-> g.cellStates, queue |-> queue, claimed |-> 0,
                     active |-> FALSE, used |-> 0, broke |-> FALSE]
               ELSE GrowCell(g.cellStates, heights, Tail(queue), Head(queue),
                             g.states[k].id, R)
        active == g.active \/ acc.active
        lastState == k = Len(g.states)
    IN [g EXCEPT !.cellStates = acc.cellStates,
                 !.states[k].cellCount = g.states[k].cellCount + acc.claimed,
                 !.queues[k] = acc.queue,
                 !.stateIdx = IF lastState THEN 0 ELSE k,
                 !.active = IF lastState THEN FALSE ELSE active,
                 !.done = lastState /\ ~active]

\* the draws GrowthStep consumes
GrowthDraws(g, heights, R(_)) ==
    LET queue == g.queues[g.stateIdx + 1]
    IN IF Len(queue) = 0 THEN 0
       ELSE GrowCell(g.cellStates, heights, Tail(queue), Head(queue),
                     g.states[g.stateIdx + 1].id, R).used

\* "Recalculate state centers based on all cells" (sumX / count to the
\* model's resolution)
RecalculateCenters(states, cellStates) ==
    [k \in 1..Len(states) |->
        LET own == {i \in Cells : cellStates[i] = states[k].id}
        IN IF own = {} THEN states[k]
           ELSE [states[k] EXCEPT !.centerX = SumCells(own, 1) \div Cardinality(own),
                                  !.centerY = SumCells(own, 2) \div Cardinality(own),
                                  !.cellCount = Cardinality(own)]]

\* the while (active) loop, on the stream s read from position p
RECURSIVE RunGrowth(_, _, _, _)
RunGrowth(g, heights, s, p) ==
    IF g.done THEN g
    ELSE RunGrowth(GrowthStep(g, heights, LAMBDA k : Draw(s, p + k)), heights, s,
                   p + GrowthDraws(g, heights, LAMBDA k : Draw(s, p + k)))

\* the part of StateGenerator.generate before the growth: the growth's
\* locals for the shuffled land cells, or none when the land is too small
SeedStates(cellStates, shuffled, s, p) ==
    LET seedCells == SelectSeedCells(shuffled)
        init == InitStates(seedCells, <<>>, s, p)
    IN [growth |-> StartGrowth(cellStates, seedCells, init.states), pos |-> init.pos]

\* StateGenerator.generate(map, numStates, seed): the states returned and
\* cells.states as it leaves them
GenerateStates(heights, cellStates, seed) ==
    LET land == StateLandCells(heights)
    IN IF Len(land) < NumStates
       THEN [states |-> <<>>, cellStates |-> cellStates]
       ELSE LET Grown(g) == [states |-> RecalculateCenters(g.states, g.cellStates),
                             cellStates |-> g.cellStates]
                Seeded(sd) == Grown(RunGrowth(sd.growth, heights, seed, sd.pos))
                Shuffled(sh) == Seeded(SeedStates(cellStates, sh.arr, seed, sh.pos))
            IN Shuffled(SortRandom(land, seed, 0))

---------------------------------------------------------------------------
(* CityGenerator *)

SYLLABLES ==
    [starts  |-> <<"A", "Ba", "Ca", "Da", "E", "Fa", "Ga", "Ha", "I", "Ja", "Ka", "La",
                   "Ma", "Na", "O", "Pa", "Ra", "Sa", "Ta", "U", "Va", "Wa", "Za">>,
     middles |-> <<"bel", "cor", "dan", "ell", "fal", "gar", "has", "ion", "jor", "kil",
                   "lum", "mon", "nor", "oth", "pel", "qui", "ror", "sun", "til", "un",
                   "vel", "wen", "xan", "yor", "zel">>,
     ends    |-> <<"ia", "is", "on", "um", "en", "ar", "os", "ia", "eth", "ord", "ast",
                   "ell", "ant", "ock", "ham", "ton", "field", "bury", "ford", "wood",
                   "mont", "port", "stead">>]

\* generateCityName(prng), R(k) being the k-th draw it consumes
GenerateCityName(R(_)) ==
    LET start == SYLLABLES.starts[FloorMul(R(2), Len(SYLLABLES.starts)) + 1]
    IN IF R(1) > 30
       THEN [name |-> <<start, SYLLABLES.ends[FloorMul(R(3), Len(SYLLABLES.ends)) + 1]>>,
             used |-> 3]
       ELSE [name |-> <<start,
                        SYLLABLES.middles[FloorMul(R(3), Len(SYLLABLES.middles)) + 1],
                        SYLLABLES.ends[FloorMul(R(4), Len(SYLLABLES.ends)) + 1]>>,
             used |-> 4]

\* `(Capital of ${name})`
CapitalMarker(name) == <<"(Capital of ">> \o name \o <<")">>

\* the scan for the capital's cell keeping the last cell among equals
BestCellLastOfEquals(heights, cellStates, stateId) ==
    LET F[k \in 0..Len(CellSeq)] ==
            IF k = 0 THEN [bestCellId |-> NoCell, maxHeight |-> -1]
            ELSE LET i == CellSeq[k]
                     best == F[k - 1]
                 IN IF cellStates[i] = stateId /\ heights[i] >= best.maxHeight
                    THEN [bestCellId |-> i, maxHeight |-> heights[i]]
                    ELSE best
    IN F[Len(CellSeq)].bestCellId

\* the scan for the capital's cell: the highest cell of the state, the first
\* one in cell order among equals (heights[i] > maxHeight, from -1)
BestCell(heights, cellStates, stateId) ==
    LET F[k \in 0..Len(CellSeq)] ==
            IF k = 0 THEN [bestCellId |-> NoCell, maxHeight |-> -1]
            ELSE LET i == CellSeq[k]
                     best == F[k - 1]
                 IN IF cellStates[i] = stateId /\ heights[i] > best.maxHeight
                    THEN [bestCellId |-> i, maxHeight |-> heights[i]]
                    ELSE best
    IN F[Len(CellSeq)].bestCellId

\* "1. Place Capitals": st = [cities, states, nextId, pos], k the state's index
RECURSIVE PlaceCapitals(_, _, _, _, _)
PlaceCapitals(heights, cellStates, st, k, s) ==
    IF k > Len(st.states) THEN st
    ELSE LET state == st.states[k]
             Capital(best, nm) ==
                 IF best = NoCell THEN PlaceCapitals(heights, cellStates, st, k + 1, s)
                 ELSE PlaceCapitals(heights, cellStates,
                        [cities |-> Append(st.cities,
                                       [id |-> st.nextId,
                                        cellId |-> best,
                                        name |-> nm.name \o <<" ">> \o CapitalMarker(state.name),
                                        population |->
                                            FloorMul(Draw(s, st.pos + nm.used + 1), 50000) + 10000,
                                        type |-> "Capital"]),
                         states |-> [st.states EXCEPT ![k].capitalId = st.nextId],
                         nextId |-> st.nextId + 1,
                         pos |-> st.pos + nm.used + 1],
                        k + 1, s)
         IN Capital(BestCell(heights, cellStates, state.id),
                    GenerateCityName(LAMBDA j : Draw(s, st.pos + j)))

TownsPerLand == 1000    \* "roughly 1 per 1000 land cells"

\* `name.toLowerCase()` of a generated name: only the first piece has capitals
LowerStart ==
    <<"a", "ba", "ca", "da", "e", "fa", "ga", "ha", "i", "ja", "ka", "la",
      "ma", "na", "o", "pa", "ra", "sa", "ta", "u", "va", "wa", "za">>

ToLowerCase(name) ==
    [k \in 1..Len(name) |->
        IF \E j \in 1..Len(SYLLABLES.starts) : SYLLABLES.starts[j] = name[k]
        THEN LowerStart[CHOOSE j \in 1..Len(SYLLABLES.starts) : SYLLABLES.starts[j] = name[k]]
        ELSE name[k]]

\* the loops "2. Place Towns" and "3. Place Villages": n settlements of the
\* type given on random cells of landCells; st = [cities, landCells, nextId, pos]
RECURSIVE Scatter(_, _, _, _)
Scatter(st, n, type, s) ==
    IF n = 0 \/ Len(st.landCells) = 0 THEN st
    ELSE LET idx == FloorMul(Draw(s, st.pos + 1), Len(st.landCells)) + 1
             Settlement(nm, r) ==
                 Scatter([cities |-> Append(st.cities,
                                       [id |-> st.nextId,
                                        cellId |-> st.landCells[idx],
                                        name |-> IF type = "Town" THEN nm.name
                                                 ELSE ToLowerCase(nm.name),
                                        population |-> IF type = "Town"
                                                       THEN FloorMul(r, 5000) + 2000
                                                       ELSE FloorMul(r, 500) + 100,
                                        type |-> type]),
                          landCells |-> RemoveAt(st.landCells, idx),
                          nextId |-> st.nextId + 1,
                          pos |-> st.pos + nm.used + 2],
                         n - 1, type, s)
             Named(nm) == Settlement(nm, Draw(s, st.pos + 1 + nm.used + 1))
         IN Named(GenerateCityName(LAMBDA j : Draw(s, st.pos + 1 + j)))

\* the loops of generate with as many villages as towns
ScatterOnFewVillages(cellSeq, heights, caps, seed) ==
    LET land == SelectSeq(cellSeq, LAMBDA i : F32Gt(heights[i], SeaLevel))
        numTowns == Len(land) \div TownsPerLand
        Free(i) == ~\E k \in 1..Len(caps.cities) : caps.cities[k].cellId = i
        Towns(landCells) == Scatter([cities |-> caps.cities, landCells |-> landCells,
                                     nextId |-> caps.nextId, pos |-> caps.pos],
                                    numTowns, "Town", seed)
        Villages(towns) == Scatter(towns, numTowns, "Village", seed)
    IN Villages(Towns(SelectSeq(land, Free)))

\* "2. Place Towns" and "3. Place Villages" of generate, on the cells
\* cellSeq of a map after the capitals caps = [cities, nextId, pos]
ScatterOn(cellSeq, heights, caps, seed) ==
    LET land == SelectSeq(cellSeq, LAMBDA i : F32Gt(heights[i], SeaLevel))
        numTowns == Len(land) \div TownsPerLand
        Free(i) == ~\E k \in 1..Len(caps.cities) : caps.cities[k].cellId = i
        Towns(landCells) == Scatter([cities |-> caps.cities, landCells |-> landCells,
                                     nextId |-> caps.nextId, pos |-> caps.pos],
                                    numTowns, "Town", seed)
        Villages(towns) == Scatter(towns, numTowns * 2, "Village", seed)
    IN Villages(Towns(SelectSeq(land, Free)))

\* CityGenerator.generate(map, seed): the cities returned, and map.states
\* with the capitalId it writes
GenerateCities(heights, cellStates, states, seed) ==
    LET Settled(caps) == [cities |-> ScatterOn(CellSeq, heights, caps, seed).cities,
                          states |-> caps.states]
    IN Settled(PlaceCapitals(heights, cellStates,
                             [cities |-> <<>>, states |-> states, nextId |-> 1, pos |-> 0],
                             1, seed))

---------------------------------------------------------------------------
(* RoadGenerator.  Costs and scores are in thousandths of a world unit.     *)

Infinity == 1000000000

\* dist(map, id1, id2)
Dist(id1, id2) == ISqrt(DistSq(id1, id2) * HeightUnit * HeightUnit)

\* biomePenalty, in tenths
BiomePenalty(biome) ==
    CASE biome = BiomeType.DESERT -> 12
      [] biome = BiomeType.SWAMP -> 30
      [] biome = BiomeType.MOUNTAIN -> 40
      [] biome = BiomeType.SNOW -> 50
      [] biome = BiomeType.DENSE_FOREST -> 15
      [] biome = BiomeType.FOREST -> 12
      [] biome = BiomeType.GRASSLAND -> 10
      [] biome = BiomeType.BEACH -> 12
      [] OTHER -> 10

\* getMovementCost without the water check
GetMovementCostNoWater(cells, fromId, toId) ==
    (Dist(fromId, toId) * BiomePenalty(cells.biomes[toId])) \div 10
    + Abs(cells.heights[toId] - cells.heights[fromId]) * 500

\* getMovementCost(map, fromId, toId)
GetMovementCost(cells, fromId, toId) ==
    IF F32Lt(cells.heights[toId], SeaLevel) THEN Infinity
    ELSE (Dist(fromId, toId) * BiomePenalty(cells.biomes[toId])) \div 10
         + Abs(cells.heights[toId] - cells.heights[fromId]) * 500

\* reconstructPath(cameFrom, current)
RECURSIVE ReconstructPath(_, _, _)
ReconstructPath(cameFrom, current, totalPath) ==
    IF cameFrom[current] = NoCell THEN totalPath
    ELSE ReconstructPath(cameFrom, cameFrom[current], <<cameFrom[current]>> \o totalPath)

\* the scan taking the node inserted first, whatever its fScore
LowestFFirstInserted(openSet, fScore) ==
    IF Len(openSet) = 0 THEN NoCell ELSE openSet[1]

\* the node of openSet with the lowest fScore, the first inserted among equals
LowestF(openSet, fScore) ==
    LET F[k \in 0..Len(openSet)] ==
            IF k = 0 THEN [current |-> NoCell, minF |-> Infinity]
            ELSE LET acc == F[k - 1]
                 IN IF fScore[openSet[k]] < acc.minF
                    THEN [current |-> openSet[k], minF |-> fScore[openSet[k]]]
                    ELSE acc
    IN F[Len(openSet)].current

\* the for loop over the neighbours of current: a = [openSet, gScore, fScore, cameFrom]
RelaxNeighbors(cells, a, current, endId) ==
    LET nbrs == VoronoiNeighbors[current]
        Relax(acc, n, moveCost) ==
            LET tentativeG == acc.gScore[current] + moveCost
            IN IF moveCost = Infinity THEN acc
               ELSE IF tentativeG < acc.gScore[n]
                    THEN [openSet |-> IF \E j \in 1..Len(acc.openSet) : acc.openSet[j] = n
                                      THEN acc.openSet ELSE Append(acc.openSet, n),
                          gScore |-> [acc.gScore EXCEPT ![n] = tentativeG],
                          fScore |-> [acc.fScore EXCEPT ![n] = tentativeG + Dist(n, endId)],
                          cameFrom |-> [acc.cameFrom EXCEPT ![n] = current]]
                    ELSE acc
        F[k \in 0..Len(nbrs)] ==
            IF k = 0 THEN a
            ELSE Relax(F[k - 1], nbrs[k], GetMovementCost(cells, current, nbrs[k]))
    IN F[Len(nbrs)]

\* the while (openSet.size > 0) loop of findPath
RECURSIVE AStar(_, _, _)
AStar(cells, a, endId) ==
    IF Len(a.openSet) = 0 THEN <<>>
    ELSE LET current == LowestF(a.openSet, a.fScore)
         IN IF current = endId THEN ReconstructPath(a.cameFrom, current, <<current>>)
            ELSE IF current = NoCell THEN <<>>
            ELSE AStar(cells,
                       RelaxNeighbors(cells,
                                      [a EXCEPT !.openSet =
                                           SelectSeq(a.openSet, LAMBDA c : c # current)],
                                      current, endId),
                       endId)

\* findPath(map, startId, endId): the path of cell ids, empty when there is none
FindPath(cells, startId, endId) ==
    AStar(cells,
          [openSet |-> <<startId>>,
           gScore |-> [i \in Cells |-> IF i = startId THEN 0 ELSE Infinity],
           fScore |-> [i \in Cells |-> IF i = startId THEN Dist(startId, endId) ELSE Infinity],
           cameFrom |-> [i \in Cells |-> NoCell]],
          endId)

\* String(n): the decimal digits of a non-negative integer
RECURSIVE Digits(_)
Digits(n) == IF n < 10 THEN <<n>> ELSE Append(Digits(n \div 10), n % 10)

\* a < b as strings (the order of Array.prototype.sort without a comparator)
RECURSIVE LexLess(_, _)
LexLess(a, b) ==
    IF Len(b) = 0 THEN FALSE
    ELSE IF Len(a) = 0 THEN TRUE
    ELSE IF Head(a) # Head(b) THEN Head(a) < Head(b)
    ELSE LexLess(Tail(a), Tail(b))

\* [hub.id, n.city.id].sort().join('-')
ConnectionId(id1, id2) ==
    IF LexLess(Digits(id2), Digits(id1)) THEN <<id2, id1>> ELSE <<id1, id2>>

\* hubs.filter(other => other.id !== hub.id) sorted by distance (the sort is
\* stable), cut to the first two
RECURSIVE SortByDist(_, _)
SortByDist(others, cellId) ==
    IF Len(others) = 0 THEN <<>>
    ELSE LET k == CHOOSE k \in 1..Len(others) :
                    \A j \in 1..Len(others) :
                        \/ Dist(cellId, others[k].cellId) < Dist(cellId, others[j].cellId)
                        \/ (Dist(cellId, others[k].cellId) = Dist(cellId, others[j].cellId)
                            /\ k <= j)
         IN <<others[k]>> \o SortByDist(RemoveAt(others, k), cellId)

\* the hubs sorted by distance without the slice(0, 2)
NearestHubsUncut(hubs, hub) ==
    SortByDist(SelectSeq(hubs, LAMBDA o : o.id # hub.id), hub.cellId)

NearestHubs(hubs, hub) ==
    LET Slice(sorted) == SubSeq(sorted, 1, Min(2, Len(sorted)))
    IN Slice(SortByDist(SelectSeq(hubs, LAMBDA o : o.id # hub.id), hub.cellId))

\* the two nested for loops of generate, flattened: st = [roads, connections],
\* h the hub's index and k the index among its nearest hubs
RECURSIVE ConnectHubs(_, _, _, _, _)
ConnectHubs(cells, hubs, st, h, k) ==
    IF h > Len(hubs) THEN st
    ELSE LET Connect(id, path) ==
                 ConnectHubs(cells, hubs,
                   [roads |-> IF Len(path) > 0
                              THEN Append(st.roads,
                                     [id |-> <<"road">> \o id,
                                      points |-> [j \in 1..Len(path) |->
                                                    [x |-> PointOf[path[j]][1],
                                                     y |-> PointOf[path[j]][2]]],
                                      type |-> "trade"])
                              ELSE st.roads,
                    connections |-> st.connections \cup {id}],
                   h, k + 1)
             Visit(n, id) ==
                 IF id \in st.connections THEN ConnectHubs(cells, hubs, st, h, k + 1)
                 ELSE Connect(id, FindPath(cells, hubs[h].cellId, n.cellId))
             Neighbors(near) ==
                 IF k > Len(near) THEN ConnectHubs(cells, hubs, st, h + 1, 1)
                 ELSE Visit(near[k], ConnectionId(hubs[h].id, near[k].id))
         IN Neighbors(NearestHubs(hubs, hubs[h]))

\* RoadGenerator.generate(map, cities)
GenerateRoads(cells, cities) ==
    IF Len(cities) < 2 THEN <<>>
    ELSE ConnectHubs(cells,
                     SelectSeq(cities, LAMBDA c : c.type = "Capital" \/ c.type = "Town"),
                     [roads |-> <<>>, connections |-> {}], 1, 1).roads

---------------------------------------------------------------------------
(* MapGenerator *)

\* nextId: { city: 1, state: 1, castle: 1, marker: 1 }
InitialNextId == [city |-> 1, state |-> 1, castle |-> 1, marker |-> 1]

\* "3. Generate Heightmap" and the map literal: the heights under the island
\* mask, every other cell array zero, no entity
Heightmap(seed) ==
    [seed |-> seed,
     width |-> Domain.width,
     height |-> Domain.height,
     points |-> FlatPoints,
     cells |-> [heights |-> GenerateHeights(seed),
                biomes |-> [i \in Cells |-> 0],
                states |-> [i \in Cells |-> 0],
                cultures |-> [i \in Cells |-> 0],
                pop |-> [i \in Cells |-> 0]],
     rivers |-> <<>>, roads |-> <<>>, cities |-> <<>>, castles |-> <<>>,
     markers |-> <<>>, labels |-> <<>>, states |-> <<>>,
     nextId |-> InitialNextId]

\* "4. Refine Terrain and Biomes" with the noise cache given
RefineTerrain(m, cache) == [m EXCEPT !.cells = GenerateBiomes(m.cells, cache, m.seed)]

\* "5. Generate Rivers"
AddRivers(m) == [m EXCEPT !.rivers = GenerateRivers(m.cells.heights, m.seed)]

\* "6. Generate Political States": StateGenerator.generate has written
\* cells.states; map.states and nextId.state are set from what it returns
SetStates(m, st) ==
    [m EXCEPT !.cells.states = st.cellStates,
              !.states = st.states,
              !.nextId.state = Len(st.states) + 1]

AddStates(m) == SetStates(m, GenerateStates(m.cells.heights, m.cells.states, m.seed))

\* "7. Generate Cities": CityGenerator.generate has written the states'
\* capitalId; map.cities and nextId.city are set from what it returns
SetCities(m, ct) ==
    [m EXCEPT !.cities = ct.cities,
              !.states = ct.states,
              !.nextId.city = Len(ct.cities) + 1]

AddCities(m) ==
    SetCities(m, GenerateCities(m.cells.heights, m.cells.states, m.states, m.seed))

\* "8. Generate Roads"
AddRoads(m) == [m EXCEPT !.roads = GenerateRoads(m.cells, m.cities)]

\* MapGenerator.generate(width, height, seed, numCells) called with the noise
\* cache given: the WorldMap returned.  The call leaves TerrainGenerator's
\* cache as GetNoise(cache, seed).
Generate(seed, cache) ==
    AddRoads(AddCities(AddStates(AddRivers(RefineTerrain(Heightmap(seed), cache)))))

---------------------------------------------------------------------------
(* MapPersistence.  A payload is the JSON text as the value it parses to:   *)
(* typed arrays become plain arrays (sequences), and a key that may be      *)
(* missing from a payload holds <<>> when it is missing and <<v>> when it   *)
(* holds v.                                                                 *)

NoMap == [absent |-> "map"]         \* no WorldMap (null)
NoData == [absent |-> "data"]       \* localStorage.getItem(STORAGE_KEY) === null

\* Array.from(typedArray)
ArrayFrom(typed) == [k \in 1..Len(CellSeq) |-> typed[CellSeq[k]]]

\* new Float32Array(array): the elements were float32 values when saved
Float32Array(array) == [i \in Cells |-> array[i + 1]]

\* new Uint8Array(array) and new Uint16Array(array): elements modulo 2^8, 2^16
Uint8Array(array) == [i \in Cells |-> array[i + 1] % 256]
Uint16Array(array) == [i \in Cells |-> array[i + 1] % 65536]

\* s.key with no fallback: undefined when the key is missing
JsonOrUndefined(opt, fallback) == IF Len(opt) = 0 THEN [absent |-> "key"] ELSE opt[1]

\* s.key || fallback
JsonOr(opt, fallback) == IF Len(opt) = 0 THEN fallback ELSE opt[1]

\* new Float64Array(s.points): no element when s.points is undefined
Float64Array(s) == IF "points" \in DOMAIN s THEN s.points ELSE <<>>

\* save with the nextId block left out of the payload
SerializeNoNextId(w) ==
    [seed |-> w.seed, width |-> w.width, height |-> w.height,
     points |-> w.points,
     cells |-> [heights |-> ArrayFrom(w.cells.heights),
                biomes |-> ArrayFrom(w.cells.biomes),
                states |-> ArrayFrom(w.cells.states),
                cultures |-> ArrayFrom(w.cells.cultures),
                pop |-> ArrayFrom(w.cells.pop)],
     cities |-> <<w.cities>>, castles |-> <<w.castles>>, markers |-> <<w.markers>>,
     states |-> <<w.states>>, rivers |-> <<w.rivers>>, roads |-> <<w.roads>>,
     nextId |-> <<>>]

\* MapPersistence.save(map): the payload written to localStorage
Serialize(w) ==
    [seed |-> w.seed, width |-> w.width, height |-> w.height,
     points |-> w.points,
     cells |-> [heights |-> ArrayFrom(w.cells.heights),
                biomes |-> ArrayFrom(w.cells.biomes),
                states |-> ArrayFrom(w.cells.states),
                cultures |-> ArrayFrom(w.cells.cultures),
                pop |-> ArrayFrom(w.cells.pop)],
     cities |-> <<w.cities>>, castles |-> <<w.castles>>, markers |-> <<w.markers>>,
     states |-> <<w.states>>, rivers |-> <<w.rivers>>, roads |-> <<w.roads>>,
     nextId |-> <<w.nextId>>]

\* load with the counters of a new map in place of the payload's
DeserializeFreshIds(p) ==
    [seed |-> p.seed, width |-> p.width, height |-> p.height,
     points |-> Float64Array(p),
     cells |-> [heights |-> Float32Array(p.cells.heights),
                biomes |-> Uint8Array(p.cells.biomes),
                states |-> Uint16Array(p.cells.states),
                cultures |-> Uint16Array(p.cells.cultures),
                pop |-> Float32Array(p.cells.pop)],
     rivers |-> JsonOr(p.rivers, <<>>),
     roads |-> JsonOr(p.roads, <<>>),
     cities |-> JsonOr(p.cities, <<>>),
     castles |-> JsonOr(p.castles, <<>>),
     markers |-> JsonOr(p.markers, <<>>),
     labels |-> <<>>,
     states |-> JsonOr(p.states, <<>>),
     nextId |-> InitialNextId]

\* the WorldMap load builds from a parsed payload
Deserialize(p) ==
    [seed |-> p.seed, width |-> p.width, height |-> p.height,
     points |-> Float64Array(p),
     cells |-> [heights |-> Float32Array(p.cells.heights),
                biomes |-> Uint8Array(p.cells.biomes),
                states |-> Uint16Array(p.cells.states),
                cultures |-> Uint16Array(p.cells.cultures),
                pop |-> Float32Array(p.cells.pop)],
     rivers |-> JsonOr(p.rivers, <<>>),
     roads |-> JsonOr(p.roads, <<>>),
     cities |-> JsonOr(p.cities, <<>>),
     castles |-> JsonOr(p.castles, <<>>),
     markers |-> JsonOr(p.markers, <<>>),
     labels |-> <<>>,
     states |-> JsonOr(p.states, <<>>),
     nextId |-> JsonOr(p.nextId, InitialNextId)]

\* stored texts that are not the JSON of an object: the empty string, and a
\* text JSON.parse rejects
EmptyText == [text |-> ""]
Unparseable == [text |-> "{"]

\* !data
Falsy(data) == data \in {NoData, EmptyText}

\* the try block of load throws: JSON.parse on a text that is not JSON,
\* delaunay.voronoi([0, 0, s.width, s.height]) on an undefined bound
\* ("invalid bounds"), s.cells.heights on an undefined s.cells.  A missing
\* s.points gives new Delaunay an empty buffer, which it accepts.
LoadThrows(data) ==
    \/ data = Unparseable
    \/ "width" \notin DOMAIN data
    \/ "height" \notin DOMAIN data
    \/ "cells" \notin DOMAIN data

\* console.error('Failed to load map:', err) is reached
LoadReports(data) == ~Falsy(data) /\ LoadThrows(data)

\* MapPersistence.load(): the WorldMap, or NoMap (null) when nothing is
\* stored or the try block threw
Load(data) ==
    IF Falsy(data) THEN NoMap
    ELSE IF LoadThrows(data) THEN NoMap
    ELSE Deserialize(data)

---------------------------------------------------------------------------
(* The tools (ToolManager).  A ToolEvent e is [x, y, cellId, altKey]; rnd   *)
(* is the sequence of values Math.random returns to a placer.              *)

\* heightChange = intensity * (1 - distance / radius) with falloff always 1
HeightChangeNoFalloff(i, centerCell, radius, intensity) == intensity

\* heightChange = intensity * (1 - distance / radius)
HeightChange(i, centerCell, radius, intensity) ==
    (intensity * (HeightUnit - Dist(i, centerCell) \div radius)) \div HeightUnit

\* Math.max(0, h) alone: the ceiling of 1 left out
ClampNoCeiling(h) == Max(0, h)

\* Math.min(1, Math.max(0, h))
Clamp(h) == Min(HeightUnit, Max(0, h))

\* the cells the brush reaches: distSq <= radiusSq
BrushCells(centerCell, radius) == {i \in Cells : DistSq(i, centerCell) <= radius * radius}

\* HeightPaintTool.paint without the affectedCells.forEach: the biomes stay
HeightPaintStaleBiomes(w, cache, e, brushSize, brushIntensity) ==
    LET intensity == IF e.altKey THEN -brushIntensity ELSE brushIntensity
        affected == BrushCells(e.cellId, brushSize)
        heights == [i \in Cells |->
                      IF i \in affected
                      THEN Clamp(w.cells.heights[i]
                                 + HeightChange(i, e.cellId, brushSize, intensity))
                      ELSE w.cells.heights[i]]
    IN IF e.cellId = NoCell THEN [map |-> w, cache |-> cache]
       ELSE [map |-> [w EXCEPT !.cells.heights = heights], cache |-> cache]

\* HeightPaintTool.paint(map, e): the map and the noise cache after it
HeightPaint(w, cache, e, brushSize, brushIntensity) ==
    LET intensity == IF e.altKey THEN -brushIntensity ELSE brushIntensity
        affected == BrushCells(e.cellId, brushSize)
        heights == [i \in Cells |->
                      IF i \in affected
                      THEN Clamp(w.cells.heights[i]
                                 + HeightChange(i, e.cellId, brushSize, intensity))
                      ELSE w.cells.heights[i]]
        noise == GetNoise(cache, w.seed)
    IN IF e.cellId = NoCell THEN [map |-> w, cache |-> cache]
       ELSE [map |-> [w EXCEPT !.cells.heights = heights,
                               !.cells.biomes =
                                   [i \in Cells |->
                                       IF i \in affected
                                       THEN Biome(heights[i], NoiseAt(noise.noise2D, i))
                                       ELSE w.cells.biomes[i]]],
             cache |-> noise]

\* BiomePaintTool.paint without the distance test: every cell is painted
BiomePaintEverywhere(w, e, brushSize, selectedBiome) ==
    IF e.cellId = NoCell THEN w
    ELSE [w EXCEPT !.cells.biomes = [i \in Cells |-> selectedBiome]]

\* BiomePaintTool.paint(map, e)
BiomePaint(w, e, brushSize, selectedBiome) ==
    IF e.cellId = NoCell THEN w
    ELSE [w EXCEPT !.cells.biomes =
              [i \in Cells |-> IF i \in BrushCells(e.cellId, brushSize)
                               THEN selectedBiome ELSE w.cells.biomes[i]]]

\* the early returns of CityPlacerTool.onMouseDown without the occupancy test
CityPlacerRejectsOcean(w, e) ==
    \/ e.cellId = NoCell
    \/ F32Lt(w.cells.heights[e.cellId], SeaLevel)

\* the early returns of CityPlacerTool.onMouseDown: no cell, an ocean cell
\* (heights[cellId] < 0.2), a cell some city is on
CityPlacerRejects(w, e) ==
    \/ e.cellId = NoCell
    \/ F32Lt(w.cells.heights[e.cellId], SeaLevel)
    \/ \E k \in 1..Len(w.cities) : w.cities[k].cellId = e.cellId

\* CityPlacerTool.onMouseDown(map, e)
CityPlacer(w, e, rnd) ==
    IF CityPlacerRejects(w, e) THEN w
    ELSE LET r == rnd[1]
             type == IF r > 80 THEN "Capital" ELSE IF r > 30 THEN "Town" ELSE "Village"
             nm == GenerateCityName(LAMBDA j : rnd[1 + j])
             p == rnd[1 + nm.used + 1]
         IN [w EXCEPT !.nextId.city = w.nextId.city + 1,
                      !.cities = Append(w.cities,
                         [id |-> w.nextId.city,
                          cellId |-> e.cellId,
                          name |-> nm.name,
                          population |->
                              IF type = "Capital" THEN FloorMul(p, 50000) + 10000
                              ELSE IF type = "Town" THEN FloorMul(p, 5000) + 1000
                              ELSE FloorMul(p, 500) + 100,
                          type |-> type])]

\* the early returns of CastlePlacerTool.onMouseDown: no cell, an ocean cell,
\* a cell some castle is on
CastlePlacerRejects(w, e) ==
    \/ e.cellId = NoCell
    \/ F32Lt(w.cells.heights[e.cellId], SeaLevel)
    \/ \E k \in 1..Len(w.castles) : w.castles[k].cellId = e.cellId

\* CastlePlacerTool.onMouseDown(map, e)
CastlePlacer(w, e, rnd) ==
    IF CastlePlacerRejects(w, e) THEN w
    ELSE LET r == rnd[1]
             type == IF r > 70 THEN "Citadel" ELSE IF r > 40 THEN "Keep"
                     ELSE IF r > 20 THEN "Fort" ELSE "Outpost"
             nm == GenerateCityName(LAMBDA j : rnd[1 + j])
         IN [w EXCEPT !.nextId.castle = w.nextId.castle + 1,
                      !.castles = Append(w.castles,
                         [id |-> w.nextId.castle,
                          cellId |-> e.cellId,
                          name |-> nm.name \o <<" ", IF type = "Outpost" THEN "Watchtower"
                                                     ELSE type>>,
                          type |-> type])]

\* MarkerPlacerTool.onMouseDown(map, e)
MarkerPlacer(w, e) ==
    [w EXCEPT !.nextId.marker = w.nextId.marker + 1,
              !.markers = Append(w.markers,
                 [id |-> w.nextId.marker, x |-> e.x, y |-> e.y,
                  name |-> <<"New Marker">>, icon |-> "pin", note |-> <<>>])]

---------------------------------------------------------------------------
(* The editors: the dialog of MapCanvas (editingElement) and the forms of  *)
(* the Sidebar (editingEntity, editForm).                                  *)

\* name.includes(pattern)
Includes(name, pattern) ==
    \E k \in 1..(Len(name) - Len(pattern) + 1) :
        SubSeq(name, k, k + Len(pattern) - 1) = pattern

\* name.replace(pattern, replacement): the first occurrence only
Replace(name, pattern, replacement) ==
    IF ~Includes(name, pattern) THEN name
    ELSE LET k == CHOOSE k \in 1..(Len(name) - Len(pattern) + 1) :
                    /\ SubSeq(name, k, k + Len(pattern) - 1) = pattern
                    /\ \A j \in 1..(k - 1) : SubSeq(name, j, j + Len(pattern) - 1) # pattern
         IN SubSeq(name, 1, k - 1) \o replacement \o SubSeq(name, k + Len(pattern), Len(name))

\* cities.map(city => city.name.includes(`(Capital of ${oldName})`) ? {...city,
\* name: city.name.replace(...)} : city)
RenameCapitals(cities, oldName, newName) ==
    [k \in 1..Len(cities) |->
        IF Includes(cities[k].name, CapitalMarker(oldName))
        THEN [cities[k] EXCEPT !.name =
                 Replace(cities[k].name, CapitalMarker(oldName), CapitalMarker(newName))]
        ELSE cities[k]]

\* map.cities.filter(city => !city.name.includes(`(Capital of ${name})`))
RemoveCapitals(cities, name) ==
    SelectSeq(cities, LAMBDA c : ~Includes(c.name, CapitalMarker(name)))

\* list.filter(x => x.id !== id)
RemoveId(list, id) == SelectSeq(list, LAMBDA x : x.id # id)

\* the deletion without the for loop: the cells keep the state's id
UnclaimNothing(cellStates, stateId) == cellStates

\* the for loop zeroing cells.states of the state's cells
Unclaim(cellStates, stateId) ==
    [i \in Cells |-> IF cellStates[i] = stateId THEN 0 ELSE cellStates[i]]

\* the collection of a kind of element
KindOf(w, type) ==
    CASE type = "city" -> w.cities
      [] type = "castle" -> w.castles
      [] type = "marker" -> w.markers
      [] type = "state" -> w.states

ElementTypes == {"city", "castle", "marker", "state"}

NoElement == [absent |-> "editingElement"]      \* editingElement === null
NoEntity == [absent |-> "editingEntity"]        \* editingEntity === null

\* deleteElement() of MapCanvas for the element {type, data}
DeleteElement(w, type, data) ==
    CASE type = "city" -> [w EXCEPT !.cities = RemoveId(w.cities, data.id)]
      [] type = "castle" -> [w EXCEPT !.castles = RemoveId(w.castles, data.id)]
      [] type = "marker" -> [w EXCEPT !.markers = RemoveId(w.markers, data.id)]
      [] type = "state" ->
           [w EXCEPT !.cells.states = Unclaim(w.cells.states, data.id),
                     !.cities = RemoveCapitals(w.cities, data.name),
                     !.states = RemoveId(w.states, data.id)]

\* updateElementName(newName) of MapCanvas.  The name is written to the
\* object the dialog holds; that object is an element of the map only while
\* the dialog is live.
UpdateElementName(w, el, newName) ==
    LET named == IF ~el.live THEN w
                 ELSE CASE el.type = "city" ->
                             [w EXCEPT !.cities = [k \in 1..Len(w.cities) |->
                                 IF w.cities[k].id = el.id
                                 THEN [w.cities[k] EXCEPT !.name = newName]
                                 ELSE w.cities[k]]]
                        [] el.type = "castle" ->
                             [w EXCEPT !.castles = [k \in 1..Len(w.castles) |->
                                 IF w.castles[k].id = el.id
                                 THEN [w.castles[k] EXCEPT !.name = newName]
                                 ELSE w.castles[k]]]
                        [] el.type = "marker" ->
                             [w EXCEPT !.markers = [k \in 1..Len(w.markers) |->
                                 IF w.markers[k].id = el.id
                                 THEN [w.markers[k] EXCEPT !.name = newName]
                                 ELSE w.markers[k]]]
                        [] el.type = "state" ->
                             [w EXCEPT !.states = [k \in 1..Len(w.states) |->
                                 IF w.states[k].id = el.id
                                 THEN [w.states[k] EXCEPT !.name = newName]
                                 ELSE w.states[k]]]
    IN IF el.type = "state" /\ el.data.name # newName
       THEN [named EXCEPT !.cities = RenameCapitals(named.cities, el.data.name, newName)]
       ELSE named

\* { ...c, ...editForm }
Merge(c, editForm) ==
    [f \in DOMAIN c \cup DOMAIN editForm |->
        IF f \in DOMAIN editForm THEN editForm[f] ELSE c[f]]

\* list.map(c => c.id === id ? { ...c, ...editForm } : c)
MergeInto(list, id, editForm) ==
    [k \in 1..Len(list) |-> IF list[k].id = id THEN Merge(list[k], editForm) ELSE list[k]]

\* saveEntity() of the Sidebar: newMap
SaveEntity(w, entity) ==
    CASE entity.type = "city" ->
           [w EXCEPT !.cities = MergeInto(w.cities, entity.id, entity.editForm)]
      [] entity.type = "castle" ->
           [w EXCEPT !.castles = MergeInto(w.castles, entity.id, entity.editForm)]
      [] entity.type = "marker" ->
           [w EXCEPT !.markers = MergeInto(w.markers, entity.id, entity.editForm)]
      [] entity.type = "state" ->
           LET old == SelectSeq(w.states, LAMBDA st : st.id = entity.id)
           IN [w EXCEPT !.states = MergeInto(w.states, entity.id, entity.editForm),
                        !.cities = IF Len(old) > 0 /\ entity.editForm.name # old[1].name
                                   THEN RenameCapitals(w.cities, old[1].name,
                                                       entity.editForm.name)
                                   ELSE w.cities]

\* deleteEntity(type, id) of the Sidebar: newMap
DeleteEntity(w, type, id) ==
    CASE type = "city" -> [w EXCEPT !.cities = RemoveId(w.cities, id)]
      [] type = "castle" -> [w EXCEPT !.castles = RemoveId(w.castles, id)]
      [] type = "marker" -> [w EXCEPT !.markers = RemoveId(w.markers, id)]
      [] type = "state" ->
           LET state == SelectSeq(w.states, LAMBDA st : st.id = id)
           IN [w EXCEPT !.cells.states = Unclaim(w.cells.states, id),
                        !.cities = IF Len(state) > 0
                                   THEN RemoveCapitals(w.cities, state[1].name)
                                   ELSE w.cities,
                        !.states = RemoveId(w.states, id)]


---------------------------------------------------------------------------
(* The session: the UI store (store.ts), MapCanvas and the Sidebar.        *)

Tools == {"select", "height-paint", "biome-paint", "city-placer", "castle-placer",
          "marker-placer"}
PaintTools == {"height-paint", "biome-paint"}
PlacerTools == {"city-placer", "castle-placer", "marker-placer"}

\* TerrainGenerator's static fields before the first getNoise
EmptyCache == [noise2D |-> NoNoise, lastSeed |-> NoSeed]

\* the defaults of the UI store: brushSize 50, brushIntensity 0.1,
\* selectedBiome 2 (GRASSLAND)
InitialUI ==
    [activeTool |-> "select", activeLayer |-> "height", isDragging |-> FALSE,
     brushSize |-> 50, brushIntensity |-> 100, selectedBiome |-> BiomeType.GRASSLAND,
     mapSeed |-> DefaultSeed]

NoGen == [absent |-> "generation"]
NoOp == [op |-> "none"]
NoBudget == [placed |-> 0, painted |-> 0, edited |-> 0, generated |-> 0]

\* the ToolEvent of a pointer over cell c (delaunay.find gives -1 for a
\* position it cannot locate)
Pointer(c, altKey) ==
    [x |-> IF c = NoCell THEN 0 ELSE PointOf[c][1],
     y |-> IF c = NoCell THEN 0 ELSE PointOf[c][2],
     cellId |-> c, altKey |-> altKey]

\* the effect "Load from persistence OR Generate fresh map" of MapCanvas,
\* run on the storage, noise cache and mapSeed given
LoadOrGenerate(data, cache, seed) ==
    LET Generated(newMap) ==
            [map |-> newMap, storage |-> Serialize(newMap),
             cache |-> GetNoise(cache, seed), op |-> "generate", data |-> data]
        Loaded(savedMap) ==
            IF savedMap # NoMap
            THEN [map |-> savedMap, storage |-> data, cache |-> cache, op |-> "load",
                  data |-> data]
            ELSE Generated(Generate(seed, cache))
    IN Loaded(Load(data))

\* what the effect produced reaches the store, the storage and the cache
Reload(r) ==
    /\ map' = r.map
    /\ storage' = r.storage
    /\ noiseCache' = r.cache

\* the effect has run on its own (no handler wrote the map before it); last
\* keeps what load was given and whether it logged a failure
Effect(r) ==
    /\ Reload(r)
    /\ last' = [op |-> r.op, pre |-> map, stored |-> r.data,
                reported |-> LoadReports(r.data)]

\* the dialog after the map was replaced by a loaded or generated one: the
\* object it holds is no longer an element of the map
Detached(el) == IF el = NoElement THEN el ELSE [el EXCEPT !.live = FALSE]

SessionInit ==
    /\ map = NoMap
    /\ storage = NoData
    /\ noiseCache = EmptyCache
    /\ ui = InitialUI
    /\ dialog = NoElement
    /\ form = NoEntity
    /\ budget = NoBudget
    /\ last = NoOp
    /\ pc = "mount"
    /\ gen = NoGen

\* MapCanvas is mounted: the effect runs for the first time
Mount ==
    /\ pc = "mount"
    /\ Effect(LoadOrGenerate(storage, noiseCache, ui.mapSeed))
    /\ pc' = "ready"
    /\ UNCHANGED <<ui, dialog, form, budget, gen>>

\* setActiveTool(t) from the toolbar
SetActiveTool(t) ==
    /\ pc = "ready" /\ ~ui.isDragging
    /\ ui.activeTool # t
    /\ ui' = [ui EXCEPT !.activeTool = t]
    /\ last' = NoOp
    /\ UNCHANGED <<map, storage, noiseCache, dialog, form, budget, pc, gen>>

\* setLayer(l) from the Sidebar's layers tab
SetLayer(l) ==
    /\ pc = "ready" /\ ~ui.isDragging
    /\ ui.activeLayer # l
    /\ ui' = [ui EXCEPT !.activeLayer = l]
    /\ last' = NoOp
    /\ UNCHANGED <<map, storage, noiseCache, dialog, form, budget, pc, gen>>

\* setBrushSize / setBrushIntensity / setSelectedBiome from the Sidebar
SetBrushSize(size) ==
    /\ pc = "ready" /\ ~ui.isDragging
    /\ ui.brushSize # size
    /\ ui' = [ui EXCEPT !.brushSize = size]
    /\ last' = NoOp
    /\ UNCHANGED <<map, storage, noiseCache, dialog, form, budget, pc, gen>>

SetBrushIntensity(intensity) ==
    /\ pc = "ready" /\ ~ui.isDragging
    /\ ui.activeTool = "height-paint"
    /\ ui.brushIntensity # intensity
    /\ ui' = [ui EXCEPT !.brushIntensity = intensity]
    /\ last' = NoOp
    /\ UNCHANGED <<map, storage, noiseCache, dialog, form, budget, pc, gen>>

SetSelectedBiome(b) ==
    /\ pc = "ready" /\ ~ui.isDragging
    /\ ui.activeTool = "biome-paint"
    /\ ui.selectedBiome # b
    /\ ui' = [ui EXCEPT !.selectedBiome = b]
    /\ last' = NoOp
    /\ UNCHANGED <<map, storage, noiseCache, dialog, form, budget, pc, gen>>

\* handleMouseDown of MapCanvas with no element under the pointer; rnd is
\* what Math.random returns to a placer
MouseDown(e, rnd) ==
    /\ pc = "ready" /\ ~ui.isDragging /\ dialog = NoElement
    /\ CASE ui.activeTool = "select" ->
              /\ last' = NoOp
              /\ UNCHANGED <<map, storage, noiseCache, budget>>
         [] ui.activeTool = "height-paint" ->
              LET r == HeightPaint(map, noiseCache, e, ui.brushSize, ui.brushIntensity)
              IN /\ map' = r.map
                 /\ noiseCache' = r.cache
                 /\ budget' = [budget EXCEPT !.painted = budget.painted + 1]
                 /\ last' = [op |-> "height-paint", pre |-> map, e |-> e,
                             radius |-> ui.brushSize, intensity |-> ui.brushIntensity,
                             event |-> "down"]
                 /\ UNCHANGED storage
         [] ui.activeTool = "biome-paint" ->
              /\ map' = BiomePaint(map, e, ui.brushSize, ui.selectedBiome)
              /\ budget' = [budget EXCEPT !.painted = budget.painted + 1]
              /\ last' = [op |-> "biome-paint", pre |-> map, e |-> e,
                          radius |-> ui.brushSize, biome |-> ui.selectedBiome,
                          event |-> "down"]
              /\ UNCHANGED <<storage, noiseCache>>
         [] ui.activeTool = "city-placer" ->
              /\ map' = CityPlacer(map, e, rnd)
              /\ storage' = Serialize(map')
              /\ budget' = [budget EXCEPT !.placed = budget.placed + 1]
              /\ last' = [op |-> "city-placer", pre |-> map, e |-> e]
              /\ UNCHANGED noiseCache
         [] ui.activeTool = "castle-placer" ->
              /\ map' = CastlePlacer(map, e, rnd)
              /\ storage' = Serialize(map')
              /\ budget' = [budget EXCEPT !.placed = budget.placed + 1]
              /\ last' = [op |-> "castle-placer", pre |-> map, e |-> e]
              /\ UNCHANGED noiseCache
         [] ui.activeTool = "marker-placer" ->
              /\ map' = MarkerPlacer(map, e)
              /\ storage' = Serialize(map')
              /\ budget' = [budget EXCEPT !.placed = budget.placed + 1]
              /\ last' = [op |-> "marker-placer", pre |-> map, e |-> e]
              /\ UNCHANGED noiseCache
    /\ ui' = [ui EXCEPT !.isDragging = TRUE]
    /\ UNCHANGED <<dialog, form, pc, gen>>

\* handleMouseMove with the test of isDragging left out
MouseMoveNoDragTest(e) ==
    /\ pc = "ready"
    /\ IF ui.activeTool = "select" \/ map = NoMap
       THEN UNCHANGED <<map, noiseCache, budget, last>>
       ELSE
         CASE ui.activeTool = "height-paint" ->
              LET r == HeightPaint(map, noiseCache, e, ui.brushSize, ui.brushIntensity)
              IN /\ map' = r.map
                 /\ noiseCache' = r.cache
                 /\ budget' = [budget EXCEPT !.painted = budget.painted + 1]
                 /\ last' = [op |-> "height-paint", pre |-> map, e |-> e,
                             radius |-> ui.brushSize, intensity |-> ui.brushIntensity,
                             event |-> "move"]
         [] ui.activeTool = "biome-paint" ->
              /\ map' = BiomePaint(map, e, ui.brushSize, ui.selectedBiome)
              /\ budget' = [budget EXCEPT !.painted = budget.painted + 1]
              /\ last' = [op |-> "biome-paint", pre |-> map, e |-> e,
                          radius |-> ui.brushSize, biome |-> ui.selectedBiome,
                          event |-> "move"]
              /\ UNCHANGED noiseCache
         [] OTHER -> UNCHANGED <<map, noiseCache, budget, last>>
    /\ UNCHANGED <<storage, ui, dialog, form, pc, gen>>

\* handleMouseMove of MapCanvas: nothing without a drag, the camera with the
\* select tool, the tool's onMouseMove otherwise (the paint tools paint, the
\* placers do nothing)
MouseMove(e) ==
    /\ pc = "ready"
    /\ IF ~ui.isDragging \/ ui.activeTool = "select" \/ map = NoMap
       THEN UNCHANGED <<map, noiseCache, budget, last>>
       ELSE
         CASE ui.activeTool = "height-paint" ->
              LET r == HeightPaint(map, noiseCache, e, ui.brushSize, ui.brushIntensity)
              IN /\ map' = r.map
                 /\ noiseCache' = r.cache
                 /\ budget' = [budget EXCEPT !.painted = budget.painted + 1]
                 /\ last' = [op |-> "height-paint", pre |-> map, e |-> e,
                             radius |-> ui.brushSize, intensity |-> ui.brushIntensity,
                             event |-> "move"]
         [] ui.activeTool = "biome-paint" ->
              /\ map' = BiomePaint(map, e, ui.brushSize, ui.selectedBiome)
              /\ budget' = [budget EXCEPT !.painted = budget.painted + 1]
              /\ last' = [op |-> "biome-paint", pre |-> map, e |-> e,
                          radius |-> ui.brushSize, biome |-> ui.selectedBiome,
                          event |-> "move"]
              /\ UNCHANGED noiseCache
         [] OTHER -> UNCHANGED <<map, noiseCache, budget, last>>
    /\ UNCHANGED <<storage, ui, dialog, form, pc, gen>>

\* a handleMouseUp that ends the drag and leaves the store alone
MouseUpNoSave ==
    /\ pc = "ready" /\ ui.isDragging
    /\ ui' = [ui EXCEPT !.isDragging = FALSE]
    /\ last' = NoOp
    /\ UNCHANGED <<map, storage, noiseCache, dialog, form, budget, pc, gen>>

\* handleMouseUp of MapCanvas (also onMouseLeave)
MouseUp ==
    /\ pc = "ready" /\ ui.isDragging
    /\ storage' = IF ui.activeTool \in PaintTools THEN Serialize(map) ELSE storage
    /\ ui' = [ui EXCEPT !.isDragging = FALSE]
    /\ last' = NoOp
    /\ UNCHANGED <<map, noiseCache, dialog, form, budget, pc, gen>>

\* "Skip tiny states": the states the pointer can hover
TinyState == 10

\* the element of a kind the pointer is over, for handleMouseMove's hover
\* detection (states only on the political layer)
Hoverable(type, el) ==
    type = "state" => ui.activeLayer = "political" /\ el.cellCount >= TinyState

\* handleMouseDown with the select tool on the hovered k-th element of a
\* kind: the dialog opens on that object
SelectElement(type, k) ==
    /\ pc = "ready" /\ ~ui.isDragging /\ dialog = NoElement
    /\ ui.activeTool = "select"
    /\ k \in 1..Len(KindOf(map, type))
    /\ Hoverable(type, KindOf(map, type)[k])
    /\ dialog' = [type |-> type, id |-> KindOf(map, type)[k].id,
                  data |-> KindOf(map, type)[k], live |-> TRUE]
    /\ last' = NoOp
    /\ UNCHANGED <<map, storage, noiseCache, ui, form, budget, pc, gen>>

\* the dialog's name input: updateElementName(newName)
DialogRename(newName) ==
    /\ pc = "ready" /\ dialog # NoElement
    /\ map' = UpdateElementName(map, dialog, newName)
    /\ storage' = Serialize(map')
    /\ dialog' = [dialog EXCEPT !.data.name = newName]
    /\ budget' = [budget EXCEPT !.edited = budget.edited + 1]
    /\ last' = [op |-> "updateElementName", pre |-> map]
    /\ UNCHANGED <<noiseCache, ui, form, pc, gen>>

\* the dialog's Delete button: deleteElement()
DialogDelete ==
    /\ pc = "ready" /\ dialog # NoElement
    /\ map' = DeleteElement(map, dialog.type, dialog.data)
    /\ storage' = Serialize(map')
    /\ dialog' = NoElement
    /\ last' = [op |-> "deleteElement", pre |-> map, type |-> dialog.type,
                id |-> dialog.id]
    /\ UNCHANGED <<noiseCache, ui, form, budget, pc, gen>>

\* the dialog's Done button
DialogDone ==
    /\ pc = "ready" /\ dialog # NoElement
    /\ dialog' = NoElement
    /\ last' = NoOp
    /\ UNCHANGED <<map, storage, noiseCache, ui, form, budget, pc, gen>>

\* the Sidebar shows the edit row (inputs, Save, Cancel) in the row of the
\* entity whose kind and id are those of editingEntity
EditRowShown ==
    /\ form # NoEntity
    /\ \E k \in 1..Len(KindOf(map, form.type)) : KindOf(map, form.type)[k].id = form.id

\* the Edit button of the k-th entity of a kind: startEditing(type, entity)
StartEditing(type, k) ==
    /\ pc = "ready" /\ ~ui.isDragging
    /\ k \in 1..Len(KindOf(map, type))
    /\ form # NoEntity => ~(form.type = type /\ form.id = KindOf(map, type)[k].id)
    /\ form' = [type |-> type, id |-> KindOf(map, type)[k].id,
                editForm |-> KindOf(map, type)[k]]
    /\ last' = NoOp
    /\ UNCHANGED <<map, storage, noiseCache, ui, dialog, budget, pc, gen>>

\* the edit row's name input: setEditForm({ ...editForm, name })
SetEditFormName(newName) ==
    /\ pc = "ready" /\ ~ui.isDragging
    /\ EditRowShown
    /\ form.editForm.name # newName
    /\ form' = [form EXCEPT !.editForm.name = newName]
    /\ budget' = [budget EXCEPT !.edited = budget.edited + 1]
    /\ last' = NoOp
    /\ UNCHANGED <<map, storage, noiseCache, ui, dialog, pc, gen>>

\* the edit row's Cancel button: cancelEditing()
CancelEditing ==
    /\ pc = "ready" /\ ~ui.isDragging
    /\ EditRowShown
    /\ form' = NoEntity
    /\ last' = NoOp
    /\ UNCHANGED <<map, storage, noiseCache, ui, dialog, budget, pc, gen>>

\* the edit row's Save button: saveEntity(), and the reload its
\* bumpMapVersion() triggers
SaveEntityClick ==
    /\ pc = "ready" /\ ~ui.isDragging
    /\ EditRowShown
    /\ Reload(LoadOrGenerate(Serialize(SaveEntity(map, form)), noiseCache, ui.mapSeed))
    /\ form' = NoEntity
    /\ dialog' = Detached(dialog)
    /\ last' = [op |-> "saveEntity", pre |-> map, type |-> form.type, id |-> form.id]
    /\ UNCHANGED <<ui, budget, pc, gen>>

\* the Delete button of the k-th entity of a kind: deleteEntity(type, id),
\* and the reload its bumpMapVersion() triggers
DeleteEntityClick(type, k) ==
    /\ pc = "ready" /\ ~ui.isDragging
    /\ k \in 1..Len(KindOf(map, type))
    /\ LET id == KindOf(map, type)[k].id
       IN /\ Reload(LoadOrGenerate(Serialize(DeleteEntity(map, type, id)),
                                   noiseCache, ui.mapSeed))
          /\ last' = [op |-> "deleteEntity", pre |-> map, type |-> type, id |-> id]
    /\ dialog' = Detached(dialog)
    /\ UNCHANGED <<ui, form, budget, pc, gen>>

\* the seed input of the settings tab: setMapSeed(seed); the effect depends
\* on mapSeed and runs again
SetMapSeed(seed) ==
    /\ pc = "ready" /\ ~ui.isDragging
    /\ ui.mapSeed # seed
    /\ ui' = [ui EXCEPT !.mapSeed = seed]
    /\ Effect(LoadOrGenerate(storage, noiseCache, seed))
    /\ dialog' = Detached(dialog)
    /\ UNCHANGED <<form, budget, pc, gen>>

\* "Generate New Map": MapPersistence.clear(); bumpMapVersion()
GenerateNewMap ==
    /\ pc = "ready" /\ ~ui.isDragging
    /\ Effect(LoadOrGenerate(NoData, noiseCache, ui.mapSeed))
    /\ dialog' = Detached(dialog)
    /\ budget' = [budget EXCEPT !.generated = budget.generated + 1]
    /\ UNCHANGED <<ui, form, pc, gen>>

---------------------------------------------------------------------------
(* Spec: a session of placements, deletions, Sidebar edits and             *)
(* regenerations.                                                          *)

MaxPlaced == 2          \* placer clicks in a session
MaxGenerated == 1       \* clicks of "Generate New Map" in a session

\* the cells the pointer visits, and the position delaunay.find cannot locate
PointerCells == {5, 11, NoCell}

\* the values Math.random returns to a placer: a Capital / Citadel with a
\* two-syllable name, a Village / Outpost with a three-syllable name
PlacerDraws == {<<90, 50, 10, 10, 50, 50>>, <<10, 10, 50, 90, 50, 20>>}

Next ==
    \/ Mount
    \/ \E t \in PlacerTools : SetActiveTool(t)
    \/ \E c \in PointerCells, rnd \in PlacerDraws :
          budget.placed < MaxPlaced /\ MouseDown(Pointer(c, FALSE), rnd)
    \/ MouseUp
    \/ \E type \in {"city", "castle", "marker"}, k \in 1..MaxPlaced :
          DeleteEntityClick(type, k)
    \/ budget.generated < MaxGenerated /\ GenerateNewMap

Spec == SessionInit /\ [][Next]_vars

\* the ids of a list of entities
Ids(list) == {list[k].id : k \in 1..Len(list)}

\* the entities of a list whose id is not among those given
NewEntities(list, ids) == SelectSeq(list, LAMBDA x : x.id \notin ids)

\* C8 (id monotonicity): generation numbers the cities 1..n and leaves
\* nextId.city at n + 1; every later operation on the same World gives each
\* entity it creates an id at or above the kind's nextId counter, above
\* every id handed out before, and moves the counter up by one per entity
\* created; ids stay below the counter, so none is used twice, deletions or
\* not.
C8_IdMonotonicity ==
    map # NoMap =>
      /\ \A x \in Range(map.cities) : x.id < map.nextId.city
      /\ \A x \in Range(map.castles) : x.id < map.nextId.castle
      /\ \A x \in Range(map.markers) : x.id < map.nextId.marker
      /\ last.op = "generate" =>
            /\ \A k \in 1..Len(map.cities) : map.cities[k].id = k
            /\ map.nextId.city = Len(map.cities) + 1
            /\ map.castles = <<>> /\ map.nextId.castle = 1
            /\ map.markers = <<>> /\ map.nextId.marker = 1
      /\ last.op \notin {"none", "generate", "load"} =>
            LET pre == last.pre
                newCities == NewEntities(map.cities, Ids(pre.cities))
                newCastles == NewEntities(map.castles, Ids(pre.castles))
                newMarkers == NewEntities(map.markers, Ids(pre.markers))
            IN /\ \A x \in Range(newCities) : x.id >= pre.nextId.city
               /\ \A x \in Range(newCastles) : x.id >= pre.nextId.castle
               /\ \A x \in Range(newMarkers) : x.id >= pre.nextId.marker
               /\ map.nextId.city = pre.nextId.city + Len(newCities)
               /\ map.nextId.castle = pre.nextId.castle + Len(newCastles)
               /\ map.nextId.marker = pre.nextId.marker + Len(newMarkers)

\* a city is placed on the cell of a generated city deleted before it, and
\* its id is not the deleted city's
C8_Witness ==
    /\ last.op = "city-placer"
    /\ Len(map.cities) = Len(last.pre.cities) + 1
    /\ \E k \in 1..Len(map.cities) :
          /\ map.cities[k].cellId = last.e.cellId
          /\ map.cities[k].id = 2
    /\ \A k \in 1..Len(map.cities) : map.cities[k].id # 1
    /\ budget.generated = 0

\* C9 (placement rejection is a no-op): a city (castle) click with no located
\* cell, on an ocean cell (height <= 0.20) or on a cell a city (castle) is
\* already on leaves cities, castles and nextId as they were; any other click
\* appends one entity on that cell to its list and leaves the other list.
C9_PlacementRejection ==
    last.op \in {"city-placer", "castle-placer"} =>
      LET pre == last.pre
          c == last.e.cellId
          isCity == last.op = "city-placer"
          old == IF isCity THEN pre.cities ELSE pre.castles
          new == IF isCity THEN map.cities ELSE map.castles
          rejected == \/ c = NoCell
                      \/ F32Le(pre.cells.heights[c], SeaLevel)
                      \/ \E k \in 1..Len(old) : old[k].cellId = c
      IN IF rejected
         THEN /\ map.cities = pre.cities
              /\ map.castles = pre.castles
              /\ map.nextId = pre.nextId
         ELSE /\ Len(new) = Len(old) + 1
              /\ SubSeq(new, 1, Len(old)) = old
              /\ new[Len(new)].cellId = c
              /\ isCity => map.castles = pre.castles
              /\ ~isCity => map.cities = pre.cities

\* a city click on the cell of a city: nothing is placed
C9_Witness ==
    /\ last.op = "city-placer"
    /\ last.e.cellId # NoCell
    /\ \E k \in 1..Len(last.pre.cities) : last.pre.cities[k].cellId = last.e.cellId
    /\ map.cities = last.pre.cities

\* C14 (capital cross-reference): every city of type Capital has a name
\* containing "(Capital of <name>)" for the name of a state of the map, and
\* that state's capitalId is the city's id.
C14_CapitalCrossReference ==
    map # NoMap =>
      \A k \in 1..Len(map.cities) :
         map.cities[k].type = "Capital" =>
            \E j \in 1..Len(map.states) :
               /\ Includes(map.cities[k].name,
                           <<"(Capital of ">> \o map.states[j].name \o <<")">>)
               /\ map.states[j].capitalId = map.cities[k].id

---------------------------------------------------------------------------
(* SpecForm: the Sidebar's edit form over placements and regenerations.    *)

MaxEdited == 1          \* name edits in a session

\* the names a user types
UserNames == {<<"Nova">>, <<"Port Allan">>}

NextForm ==
    \/ Mount
    \/ SetActiveTool("city-placer")
    \/ \E c \in {5, 9} :
          budget.placed < MaxPlaced /\ MouseDown(Pointer(c, FALSE), <<90, 50, 10, 10, 50, 50>>)
    \/ MouseUp
    \/ \E k \in 1..MaxPlaced : StartEditing("city", k)
    \/ \E newName \in UserNames : budget.edited < MaxEdited /\ SetEditFormName(newName)
    \/ CancelEditing
    \/ SaveEntityClick
    \/ \E k \in 1..MaxPlaced : DeleteEntityClick("city", k)
    \/ \E seed \in Seeds : SetMapSeed(seed)
    \/ budget.generated < MaxGenerated /\ GenerateNewMap

SpecForm == SessionInit /\ [][NextForm]_vars

\* C10 (cell occupancy): no two cities of the map are on the same cell, and
\* no two castles are.
C10_CellOccupancy ==
    map # NoMap =>
      /\ \A j, k \in 1..Len(map.cities) :
            j # k => map.cities[j].cellId # map.cities[k].cellId
      /\ \A j, k \in 1..Len(map.castles) :
            j # k => map.castles[j].cellId # map.castles[k].cellId

---------------------------------------------------------------------------
(* SpecEdit: the canvas dialog and the Sidebar editing and deleting states *)
(* and cities.                                                             *)

NextEdit ==
    \/ Mount
    \/ SetLayer("political")
    \/ \E type \in {"state", "city"}, k \in 1..NumStates : SelectElement(type, k)
    \/ \E newName \in UserNames : budget.edited < MaxEdited /\ DialogRename(newName)
    \/ DialogDelete
    \/ DialogDone
    \/ \E k \in 1..NumStates : StartEditing("state", k)
    \/ \E newName \in UserNames : budget.edited < MaxEdited /\ SetEditFormName(newName)
    \/ CancelEditing
    \/ SaveEntityClick
    \/ \E k \in 1..NumStates : DeleteEntityClick("state", k)
    \/ \E seed \in Seeds : SetMapSeed(seed)
    \/ budget.generated < MaxGenerated /\ GenerateNewMap

SpecEdit == SessionInit /\ [][NextEdit]_vars

\* C7 (deletion sweep): after State S is deleted from the canvas dialog or
\* the Sidebar, the states are those before without S, the cells S owned
\* have stateId 0 and the others keep theirs, and the cities are those
\* before whose name does not contain "(Capital of <S.name>)".
C7_DeletionSweep ==
    (/\ last.op \in {"deleteElement", "deleteEntity"}
     /\ last.type = "state"
     /\ \E k \in 1..Len(last.pre.states) : last.pre.states[k].id = last.id) =>
      LET pre == last.pre
          S == pre.states[CHOOSE k \in 1..Len(pre.states) : pre.states[k].id = last.id]
          marker == <<"(Capital of ">> \o S.name \o <<")">>
      IN /\ map.states = SelectSeq(pre.states, LAMBDA st : st.id # S.id)
         /\ \A i \in Cells :
               map.cells.states[i] = IF pre.cells.states[i] = S.id THEN 0
                                     ELSE pre.cells.states[i]
         /\ map.cities = SelectSeq(pre.cities, LAMBDA c : ~Includes(c.name, marker))

---------------------------------------------------------------------------
(* SpecStates: generation, then deletions of states from the dialog and    *)
(* the Sidebar, renames of states, and loads of the saved map.             *)

NextStates ==
    \/ Mount
    \/ SetLayer("political")
    \/ \E k \in 1..NumStates : SelectElement("state", k)
    \/ \E newName \in UserNames : budget.edited < MaxEdited /\ DialogRename(newName)
    \/ DialogDelete
    \/ DialogDone
    \/ \E k \in 1..NumStates : StartEditing("state", k)
    \/ budget.edited < MaxEdited /\ SetEditFormName(<<"Nova">>)
    \/ CancelEditing
    \/ SaveEntityClick
    \/ \E k \in 1..NumStates : DeleteEntityClick("state", k)
    \/ \E seed \in Seeds : SetMapSeed(seed)
    \/ budget.generated < MaxGenerated /\ GenerateNewMap

SpecStates == SessionInit /\ [][NextStates]_vars

\* C17 (stateId referential integrity): every cell's stateId is 0 or the
\* id of exactly one state of map.states, and the ids of the states are
\* greater than 0 and pairwise distinct.
C17_StateIdIntegrity ==
    map # NoMap =>
      /\ \A i \in Cells :
            \/ map.cells.states[i] = 0
            \/ Cardinality({k \in 1..Len(map.states) :
                               map.states[k].id = map.cells.states[i]}) = 1
      /\ \A k \in 1..Len(map.states) : map.states[k].id > 0
      /\ \A j, k \in 1..Len(map.states) :
            j # k => map.states[j].id # map.states[k].id

\* one of two states was deleted: its cells are unclaimed, and cells of the
\* other state still refer to it
C17_Witness ==
    /\ last.op \in {"deleteElement", "deleteEntity"} /\ last.type = "state"
    /\ Len(last.pre.states) = 2 /\ Len(map.states) = 1
    /\ \E i \in Cells : last.pre.cells.states[i] = last.id /\ map.cells.states[i] = 0
    /\ \E i \in Cells : map.cells.states[i] = map.states[1].id

---------------------------------------------------------------------------
(* SpecTools: strokes of the paint tools and placer clicks on the map.     *)

MaxToolEvents == 2      \* paint samples and placer clicks in a session

BrushSizes == {10, 50}          \* of the slider's 5..200
BrushIntensities == {100, 300}  \* of the slider's 0.01..0.5
PaintBiomes == {BiomeType.GRASSLAND, BiomeType.DESERT}

NextTools ==
    \/ Mount
    \/ \E t \in {"height-paint", "biome-paint", "city-placer", "marker-placer"} :
          SetActiveTool(t)
    \/ \E size \in BrushSizes : SetBrushSize(size)
    \/ \E intensity \in BrushIntensities : SetBrushIntensity(intensity)
    \/ \E b \in PaintBiomes : SetSelectedBiome(b)
    \/ \E c \in PointerCells, altKey \in BOOLEAN :
          /\ budget.painted + budget.placed < MaxToolEvents
          /\ MouseDown(Pointer(c, altKey), <<90, 50, 10, 10, 50, 50>>)
    \/ \E c \in PointerCells, altKey \in BOOLEAN :
          /\ budget.painted + budget.placed < MaxToolEvents
          /\ MouseMove(Pointer(c, altKey))
    \/ MouseUp

SpecTools == SessionInit /\ [][NextTools]_vars

\* the fields of a World the round trip is about
SavedFields(w) ==
    [seed |-> w.seed, width |-> w.width, height |-> w.height, points |-> w.points,
     heights |-> w.cells.heights, biomes |-> w.cells.biomes, states |-> w.cells.states,
     cultures |-> w.cells.cultures, pop |-> w.cells.pop,
     cities |-> w.cities, castles |-> w.castles, markers |-> w.markers,
     states_ |-> w.states, rivers |-> w.rivers, roads |-> w.roads, nextId |-> w.nextId]

\* C2 (round trip): the World load builds from what save writes for the map
\* equals the map on seed, width, height, points, the five cell arrays, the
\* six entity collections and nextId; and outside a stroke the stored
\* payload loads to the map.
C2_RoundTrip ==
    map # NoMap =>
      /\ SavedFields(Load(Serialize(map))) = SavedFields(map)
      /\ ~ui.isDragging => SavedFields(Load(storage)) = SavedFields(map)

\* a generated map after a height stroke and a marker, saved
C2_Witness ==
    /\ map # NoMap
    /\ ~ui.isDragging
    /\ map.cells.heights # GenerateHeights(map.seed)
    /\ Len(map.markers) > 0
    /\ Len(map.cities) > 0 /\ Len(map.rivers) > 0
    /\ SavedFields(Load(storage)) = SavedFields(map)

\* C6 (brush falloff): after a height-paint sample of radius R and intensity
\* I on located cell C, a cell at distance d <= R has the height
\* clamp(old + I * (1 - d / R), 0, 1), with -I for I when alt is held, and a
\* cell farther than R keeps its height.
C6_BrushFalloff ==
    (last.op = "height-paint" /\ last.e.cellId # NoCell) =>
      LET pre == last.pre
          C == last.e.cellId
          R == last.radius
          I == IF last.e.altKey THEN -last.intensity ELSE last.intensity
      IN \A i \in Cells :
            LET dx == PointOf[i][1] - PointOf[C][1]
                dy == PointOf[i][2] - PointOf[C][2]
                d == ISqrt((dx * dx + dy * dy) * HeightUnit * HeightUnit)
                raised == pre.cells.heights[i] + (I * (HeightUnit - d \div R)) \div HeightUnit
            IN IF dx * dx + dy * dy <= R * R
               THEN map.cells.heights[i] = Max(0, Min(HeightUnit, raised))
               ELSE map.cells.heights[i] = pre.cells.heights[i]

\* a sample with alt held that lowers a cell inside the radius by less than
\* the intensity, takes a cell to 0, and leaves a cell outside the radius
C6_Witness ==
    /\ last.op = "height-paint" /\ last.e.cellId # NoCell /\ last.e.altKey
    /\ \E i \in Cells :
          /\ map.cells.heights[i] < last.pre.cells.heights[i]
          /\ map.cells.heights[i] > last.pre.cells.heights[i] - last.intensity
          /\ map.cells.heights[i] > 0
    /\ \E i \in Cells : map.cells.heights[i] = 0 /\ last.pre.cells.heights[i] > 0
    /\ \E i \in Cells : DistSq(i, last.e.cellId) > last.radius * last.radius

\* C11 (height range): in the generated map and after every height-paint
\* sample, raising or lowering, of any radius and intensity, the height of
\* every cell lies between 0 and 1.
C11_HeightRange ==
    map # NoMap => \A i \in Cells : map.cells.heights[i] \in 0..HeightUnit

\* a raising sample takes a cell that was below 1 to exactly 1, where the
\* unclamped sum lies above 1
C11_Witness ==
    /\ last.op = "height-paint" /\ last.e.cellId # NoCell /\ ~last.e.altKey
    /\ \E i \in Cells :
          /\ last.pre.cells.heights[i] < HeightUnit
          /\ last.pre.cells.heights[i]
               + HeightChange(i, last.e.cellId, last.radius, last.intensity) > HeightUnit
          /\ map.cells.heights[i] = HeightUnit

---------------------------------------------------------------------------
(* SpecGen: MapGenerator.generate step by step.  The draws of the region   *)
(* growth are left open, so that every growth the loop can make is         *)
(* explored: a visit of a cell claims some neighbours and then either      *)
(* draws a refusal, which ends the visit, or runs out of neighbours.  The  *)
(* other stages read the seed's stream.                                    *)

GenSeeds == {2, 3, 4, 5, 6, 90}  \* the seeds generate is called with
Accepting == 20                 \* a draw below 0.85: the neighbour is claimed
Refusing == 90                  \* a draw above 0.85: the loop breaks

\* the most neighbours a cell has
MaxDegree == Max(Len(DelaunayNeighbors[5]), Len(DelaunayNeighbors[6]))

GenInit ==
    /\ map = NoMap
    /\ storage = NoData
    /\ noiseCache = EmptyCache
    /\ ui = InitialUI
    /\ dialog = NoElement
    /\ form = NoEntity
    /\ budget = NoBudget
    /\ last = NoOp
    /\ pc = "terrain"
    /\ \E seed \in GenSeeds : gen = [seed |-> seed]

\* heights with the island mask, TerrainGenerator.generateBiomes,
\* RiverGenerator.generate
GenTerrain ==
    /\ pc = "terrain"
    /\ map' = AddRivers(RefineTerrain(Heightmap(gen.seed), noiseCache))
    /\ noiseCache' = GetNoise(noiseCache, gen.seed)
    /\ pc' = "states"
    /\ UNCHANGED <<storage, ui, dialog, form, budget, last, gen>>

\* StateGenerator.generate up to the growth: the land cells, the shuffle,
\* the seed cells and the State records
GenSeedStates ==
    /\ pc = "states"
    /\ LET land == StateLandCells(map.cells.heights)
           sh == SortRandom(land, gen.seed, 0)
           sd == SeedStates(map.cells.states, sh.arr, gen.seed, sh.pos)
       IN IF Len(land) < NumStates
          THEN /\ pc' = "cities"
               /\ UNCHANGED <<map, gen>>
          ELSE /\ gen' = [seed |-> gen.seed, growth |-> sd.growth]
               /\ map' = [map EXCEPT !.cells.states = sd.growth.cellStates]
               /\ pc' = "growth"
    /\ UNCHANGED <<storage, noiseCache, ui, dialog, form, budget, last>>

\* the iteration with the loop's exit test left out (while (true))
GenGrowNoExit(rs) ==
    /\ pc = "growth" /\ ~gen.growth.done
    /\ gen' = [gen EXCEPT !.growth = [GrowthStep(gen.growth, map.cells.heights,
                                                 LAMBDA k : rs[k])
                                         EXCEPT !.done = FALSE]]
    /\ map' = [map EXCEPT !.cells.states = gen'.growth.cellStates]
    /\ UNCHANGED <<storage, noiseCache, ui, dialog, form, budget, last, pc>>

\* one iteration of the growth's for loop over the states, on the draws rs
GenGrow(rs) ==
    /\ pc = "growth" /\ ~gen.growth.done
    /\ gen' = [gen EXCEPT !.growth = GrowthStep(gen.growth, map.cells.heights,
                                                LAMBDA k : rs[k])]
    /\ map' = [map EXCEPT !.cells.states = gen'.growth.cellStates]
    /\ UNCHANGED <<storage, noiseCache, ui, dialog, form, budget, last, pc>>

\* the growth has ended: the centers, and generate's return to MapGenerator
GenFinishStates ==
    /\ pc = "growth" /\ gen.growth.done
    /\ map' = [map EXCEPT
                 !.states = RecalculateCenters(gen.growth.states, gen.growth.cellStates),
                 !.nextId.state = Len(gen.growth.states) + 1]
    /\ pc' = "cities"
    /\ UNCHANGED <<storage, noiseCache, ui, dialog, form, budget, last, gen>>

\* CityGenerator.generate
GenCities ==
    /\ pc = "cities"
    /\ map' = AddCities(map)
    /\ pc' = "roads"
    /\ UNCHANGED <<storage, noiseCache, ui, dialog, form, budget, last, gen>>

\* RoadGenerator.generate
GenRoads ==
    /\ pc = "roads"
    /\ map' = AddRoads(map)
    /\ pc' = "done"
    /\ UNCHANGED <<storage, noiseCache, ui, dialog, form, budget, last, gen>>

\* the draws of a visit, at most one for a neighbour: so many below 0.85,
\* then draws above
VisitDraws(accepted) ==
    [k \in 1..Len(CellSeq) |-> IF k <= accepted THEN Accepting ELSE Refusing]

NextGen ==
    \/ GenTerrain
    \/ GenSeedStates
    \/ \E accepted \in 0..MaxDegree : GenGrow(VisitDraws(accepted))
    \/ GenFinishStates
    \/ GenCities
    \/ GenRoads

SpecGen == GenInit /\ [][NextGen]_vars

\* an iteration that takes the claim branch (prng() < 0.85) for a neighbour
GenClaim ==
    \E accepted \in 1..MaxDegree :
       /\ GenGrow(VisitDraws(accepted))
       /\ gen'.growth.cellStates # gen.growth.cellStates

\* an iteration of the growth loop, whatever it draws
GenVisit == \E accepted \in 0..MaxDegree : GenGrow(VisitDraws(accepted))

\* SpecGenFair: the growth loop keeps running, and the draws are fair: the
\* claim branch is taken again and again if it can be taken again and again
FairSeeds == {4, 5, 6}

GenFairInit == GenInit /\ gen.seed \in FairSeeds

SpecGenFair ==
    GenFairInit /\ [][NextGen]_vars /\ WF_vars(GenVisit) /\ SF_vars(GenClaim)

\* every per-state queue of the growth is empty
QueuesEmpty == \A k \in 1..Len(gen.growth.queues) : gen.growth.queues[k] = <<>>

RECURSIVE Linked(_, _)
Linked(reached, own) ==
    LET more == {j \in own \ reached :
                    \E i \in reached : \E k \in 1..Len(DelaunayNeighbors[i]) :
                        DelaunayNeighbors[i][k] = j}
    IN IF more = {} THEN reached ELSE Linked(reached \cup more, own)

\* C3 (region connectivity): at every step of the growth, and after it,
\* every cell of a state is linked to the state's seed cell by a chain of
\* mesh-adjacent cells of that state.
C3_RegionConnectivity ==
    (pc \in {"growth", "cities", "roads", "done"} /\ "growth" \in DOMAIN gen) =>
      \A k \in 1..Len(gen.growth.states) :
         LET own == {i \in Cells : map.cells.states[i] = gen.growth.states[k].id}
         IN /\ gen.growth.seedCells[k] \in own
            /\ Linked({gen.growth.seedCells[k]}, own) = own

\* the growth has ended with two states, one of them over six cells or more
C3_Witness ==
    /\ pc = "cities" /\ "growth" \in DOMAIN gen
    /\ Len(gen.growth.states) = 2
    /\ \E k \in 1..2 :
          Cardinality({i \in Cells : map.cells.states[i] = gen.growth.states[k].id}) >= 6
    /\ \A k \in 1..2 :
          Cardinality({i \in Cells : map.cells.states[i] = gen.growth.states[k].id}) >= 2

\* the cities of the map that are Capitals with the id given
CapitalsWithId(id) ==
    {k \in 1..Len(map.cities) : map.cities[k].type = "Capital" /\ map.cities[k].id = id}

\* C4 (capital placement): after CityGenerator.generate there are as many
\* Capitals as states; each state's capitalId is the id of exactly one of
\* them, no other state's, and that Capital is on the state's highest cell,
\* the one with the smallest id among the highest.
C4_CapitalPlacement ==
    pc \in {"roads", "done"} =>
      /\ Cardinality({k \in 1..Len(map.cities) : map.cities[k].type = "Capital"})
            = Len(map.states)
      /\ \A j, k \in 1..Len(map.states) :
            j # k => map.states[j].capitalId # map.states[k].capitalId
      /\ \A k \in 1..Len(map.states) :
            LET own == {i \in Cells : map.cells.states[i] = map.states[k].id}
                caps == CapitalsWithId(map.states[k].capitalId)
            IN /\ Cardinality(caps) = 1
               /\ \A c \in caps :
                     /\ map.cities[c].cellId \in own
                     /\ \A i \in own :
                           \/ map.cells.heights[i] < map.cells.heights[map.cities[c].cellId]
                           \/ /\ map.cells.heights[i] = map.cells.heights[map.cities[c].cellId]
                              /\ i >= map.cities[c].cellId

\* two states have their capitals, and one of them has two highest cells
C4_Witness ==
    /\ pc = "done"
    /\ Len(map.states) = 2
    /\ \E k \in 1..Len(map.cities) : \E i \in Cells :
          /\ i > map.cities[k].cellId
          /\ map.cells.states[i] = map.cells.states[map.cities[k].cellId]
          /\ map.cells.heights[i] = map.cells.heights[map.cities[k].cellId]

---------------------------------------------------------------------------
(* SpecRiver: RiverGenerator.generate on the height fields whose two upper *)
(* rows take their heights from four levels, under a ridge on the lowest   *)
(* row.                                                                    *)

RiverLevels == {150, 200, 700, 900}     \* ocean, 0.2 as stored, a source, a wall
RidgeCells == {i \in Cells : i \div Columns = Rows - 1}
RiverSeeds == {1}

RiverInit ==
    /\ map = NoMap
    /\ storage = NoData
    /\ noiseCache = EmptyCache
    /\ ui = InitialUI
    /\ dialog = NoElement
    /\ form = NoEntity
    /\ budget = NoBudget
    /\ last = NoOp
    /\ pc = "rivers"
    /\ \E seed \in RiverSeeds, low \in [Cells \ RidgeCells -> RiverLevels] :
          gen = [seed |-> seed,
                 heights |-> [i \in Cells |-> IF i \in RidgeCells THEN 980 ELSE low[i]]]

\* RiverGenerator.generate(map, seed)
TraceRivers ==
    /\ pc = "rivers"
    /\ gen' = [seed |-> gen.seed, heights |-> gen.heights,
               rivers |-> GenerateRivers(gen.heights, gen.seed)]
    /\ pc' = "traced"
    /\ UNCHANGED <<map, storage, noiseCache, ui, dialog, form, budget, last>>

NextRiver == TraceRivers

SpecRiver == RiverInit /\ [][NextRiver]_vars

\* the cell whose center is the point given
CellAt(point) == CHOOSE i \in Cells : PointOf[i] = point

\* C5 (river validity): a river has six points or more; its last point is the
\* center of a cell below 0.20 and the earlier ones of cells at 0.20 or
\* above; consecutive points are mesh-adjacent cells, and the height never
\* rises from a point to the next.
C5_RiverValidity ==
    pc = "traced" =>
      \A r \in 1..Len(gen.rivers) :
         LET points == gen.rivers[r].points
             n == Len(points)
             h == [k \in 1..n |-> gen.heights[CellAt(points[k])]]
         IN /\ n >= 6
            /\ \A k \in 1..n : \E i \in Cells : PointOf[i] = points[k]
            /\ F32Lt(h[n], SeaLevel)
            /\ \A k \in 1..(n - 1) : F32Ge(h[k], SeaLevel)
            /\ \A k \in 1..(n - 1) :
                  /\ \E j \in 1..Len(DelaunayNeighbors[CellAt(points[k])]) :
                        DelaunayNeighbors[CellAt(points[k])][j] = CellAt(points[k + 1])
                  /\ h[k + 1] <= h[k]

\* a river that crosses a cell storing exactly 0.2 and runs level for a step
C5_Witness ==
    /\ pc = "traced"
    /\ \E r \in 1..Len(gen.rivers) :
          LET points == gen.rivers[r].points
          IN /\ \E k \in 1..Len(points) : gen.heights[CellAt(points[k])] = SeaLevel
             /\ \E k \in 1..(Len(points) - 1) :
                   gen.heights[CellAt(points[k])] = gen.heights[CellAt(points[k + 1])]

---------------------------------------------------------------------------
(* SpecDet: MapGenerator.generate called again and again, with whatever    *)
(* the calls before left in TerrainGenerator's noise cache.                *)

DetSeeds == {3, 5, 6, 90}

DetInit ==
    /\ map = NoMap
    /\ storage = NoData
    /\ noiseCache = EmptyCache
    /\ ui = InitialUI
    /\ dialog = NoElement
    /\ form = NoEntity
    /\ budget = NoBudget
    /\ last = NoOp
    /\ pc = "idle"
    /\ gen = [first |-> [seed \in DetSeeds |-> NoMap],
              again |-> [seed \in DetSeeds |-> FALSE]]

\* MapGenerator.generate(width, height, seed, numCells); gen.first keeps what
\* the first call with a seed returned
CallGenerate(seed) ==
    /\ pc = "idle"
    /\ map' = Generate(seed, noiseCache)
    /\ noiseCache' = GetNoise(noiseCache, seed)
    /\ gen' = IF gen.first[seed] = NoMap
              THEN [gen EXCEPT !.first[seed] = map']
              ELSE [gen EXCEPT !.again[seed] = TRUE]
    /\ last' = [op |-> "generate", cache |-> noiseCache]
    /\ UNCHANGED <<storage, ui, dialog, form, budget, pc>>

\* the page is loaded afresh: TerrainGenerator's static fields are null again
LoadPage ==
    /\ pc = "idle"
    /\ noiseCache # EmptyCache
    /\ noiseCache' = EmptyCache
    /\ map' = NoMap
    /\ last' = NoOp
    /\ UNCHANGED <<storage, ui, dialog, form, budget, pc, gen>>

NextDet ==
    \/ \E seed \in DetSeeds : CallGenerate(seed)
    \/ LoadPage

SpecDet == DetInit /\ [][NextDet]_vars

\* C1 (determinism of generation): a call of generate returns the cell
\* arrays, states, cities, rivers and roads the first call with the same
\* seed returned, whatever was generated or cached in between.
C1_Determinism ==
    map # NoMap =>
      LET first == gen.first[map.seed]
      IN /\ map.cells.heights = first.cells.heights
         /\ map.cells.biomes = first.cells.biomes
         /\ map.cells.states = first.cells.states
         /\ map.states = first.states
         /\ map.cities = first.cities
         /\ map.rivers = first.rivers
         /\ map.roads = first.roads

\* a seed is generated a second time, the cache holding another seed's noise
C1_Witness ==
    /\ map # NoMap
    /\ gen.again[map.seed]
    /\ last.op = "generate"
    /\ last.cache.lastSeed \notin {NoSeed, map.seed}
    /\ Len(map.states) > 0 /\ Len(map.rivers) > 0

---------------------------------------------------------------------------
(* SpecLoad: the page is opened on whatever localStorage holds: nothing,   *)
(* what a session saved, what an earlier version of the program saved      *)
(* (keys missing), or a text that is no payload.                           *)

MaxMissing == 2         \* keys missing from a stored payload

RequiredKeys == {"width", "height", "points", "cells"}
CollectionKeys == {"rivers", "roads", "cities", "castles", "markers", "states"}
PayloadKeys == RequiredKeys \cup CollectionKeys \cup {"nextId"}

\* the payload p without the keys K
Without(p, K) ==
    [key \in DOMAIN p \ (K \cap RequiredKeys) |-> IF key \in K THEN <<>> ELSE p[key]]

\* what a session on a seed saved after a castle and a marker were placed
SessionPayload(seed) ==
    Serialize(MarkerPlacer(CastlePlacer(Generate(seed, EmptyCache), Pointer(5, FALSE),
                                        <<90, 50, 10, 10, 50, 50>>),
                           Pointer(5, FALSE)))

StoredPayloads ==
    {NoData, EmptyText, Unparseable}
        \cup {Without(SessionPayload(seed), K) :
                 seed \in Seeds, K \in {K \in SUBSET PayloadKeys : Cardinality(K) <= MaxMissing}}

LoadInit ==
    /\ map = NoMap
    /\ storage \in StoredPayloads
    /\ noiseCache = EmptyCache
    /\ ui = InitialUI
    /\ dialog = NoElement
    /\ form = NoEntity
    /\ budget = NoBudget
    /\ last = NoOp
    /\ pc = "mount"
    /\ gen = NoGen

NextLoad ==
    \/ Mount
    \/ SetActiveTool("marker-placer")
    \/ budget.placed < MaxPlaced /\ MouseDown(Pointer(11, FALSE), <<90, 50, 10, 10, 50, 50>>)
    \/ MouseUp

SpecLoad == LoadInit /\ [][NextLoad]_vars

\* a stored text is corrupt: it does not parse, or the payload lacks width,
\* height, points or cells
Corrupt(data) ==
    \/ data \in {EmptyText, Unparseable}
    \/ data # NoData /\ RequiredKeys \ DOMAIN data # {}

\* a World with its mesh: two coordinates for every cell
WhollyBuilt(w) == Len(w.points) = 2 * Cardinality(Cells)

\* C12 (load error outcomes): load returns to its caller; with nothing stored
\* it returns none and reports nothing; with a corrupt payload stored it
\* reports a failure, what it returns is not what it returns when nothing is
\* stored, and it is never a World built in part.
C12_LoadErrorOutcomes ==
    last.op \in {"load", "generate"} =>
      LET data == last.stored
      IN /\ data = NoData => Load(data) = NoMap /\ ~last.reported
         /\ Corrupt(data) =>
               /\ last.reported
               /\ Load(data) # Load(NoData)
               /\ Load(data) # NoMap => WhollyBuilt(Load(data))

\* the present value of a key of a payload that may lack it
Present(opt) == opt[1]

\* C13 (missing optional fields default to empty): loading a payload that
\* has width, height, points and cells succeeds; each of rivers, roads,
\* cities, castles, markers and states it lacks is the empty list in the
\* World, and seed, width, height, points, the cell arrays and each
\* collection it has are those of the payload.
C13_MissingDefaultsEmpty ==
    (/\ last.op \in {"load", "generate"}
     /\ last.stored \notin {NoData, EmptyText, Unparseable}
     /\ RequiredKeys \subseteq DOMAIN last.stored) =>
      LET data == last.stored
          w == IF last.op = "load" THEN Load(data) ELSE NoMap
      IN /\ last.op = "load" /\ ~last.reported
         /\ w.seed = data.seed /\ w.width = data.width /\ w.height = data.height
         /\ w.points = data.points
         /\ \A i \in Cells :
               /\ w.cells.heights[i] = data.cells.heights[i + 1]
               /\ w.cells.biomes[i] = data.cells.biomes[i + 1]
               /\ w.cells.states[i] = data.cells.states[i + 1]
               /\ w.cells.cultures[i] = data.cells.cultures[i + 1]
               /\ w.cells.pop[i] = data.cells.pop[i + 1]
         /\ w.rivers = IF data.rivers = <<>> THEN <<>> ELSE Present(data.rivers)
         /\ w.roads = IF data.roads = <<>> THEN <<>> ELSE Present(data.roads)
         /\ w.cities = IF data.cities = <<>> THEN <<>> ELSE Present(data.cities)
         /\ w.castles = IF data.castles = <<>> THEN <<>> ELSE Present(data.castles)
         /\ w.markers = IF data.markers = <<>> THEN <<>> ELSE Present(data.markers)
         /\ w.states = IF data.states = <<>> THEN <<>> ELSE Present(data.states)
         /\ pc = "ready" /\ budget.placed = 0 /\ ~ui.isDragging => map = w

\* a payload without cities and states is loaded: both are empty in the map,
\* and the castle, the marker and the rivers are the payload's
C13_Witness ==
    /\ last.op = "load"
    /\ last.stored.cities = <<>> /\ last.stored.states = <<>>
    /\ map.cities = <<>> /\ map.states = <<>>
    /\ Len(map.castles) = 1 /\ Len(map.markers) = 1
    /\ Len(map.rivers) > 0
    /\ map.castles = Present(last.stored.castles)
    /\ map.rivers = Present(last.stored.rivers)

---------------------------------------------------------------------------
(* SpecRename: states and cities renamed in the canvas dialog and in the   *)
(* Sidebar's edit row.                                                     *)

MaxRenames == 2         \* name edits in a session

\* a city name a user types that carries the marker of the generated state
\* twice
TwiceMarked ==
    <<"Twin", " ">> \o CapitalMarker(<<"Bel", "mark">>) \o <<" ">>
        \o CapitalMarker(<<"Bel", "mark">>)

NextRename ==
    \/ Mount
    \/ SetLayer("political")
    \/ \E type \in {"state", "city"}, k \in 1..NumStates : SelectElement(type, k)
    \/ \E newName \in UserNames : budget.edited < MaxRenames /\ DialogRename(newName)
    \/ /\ budget.edited < MaxRenames
       /\ dialog # NoElement /\ dialog.type = "city"
       /\ DialogRename(TwiceMarked)
    \/ DialogDone
    \/ \E k \in 1..NumStates : StartEditing("state", k)
    \/ \E newName \in UserNames : budget.edited < MaxRenames /\ SetEditFormName(newName)
    \/ CancelEditing
    \/ SaveEntityClick

SpecRename == SessionInit /\ [][NextRename]_vars

\* the name is the old one with one occurrence of the pattern replaced, in
\* its place, by the replacement
ReplacedInPlace(old, new, pattern, replacement) ==
    \E k \in 1..(Len(old) - Len(pattern) + 1) :
       /\ SubSeq(old, k, k + Len(pattern) - 1) = pattern
       /\ new = SubSeq(old, 1, k - 1) \o replacement
                   \o SubSeq(old, k + Len(pattern), Len(old))

\* C15 (state rename sweep): after a state is renamed from A to another name
\* B, in the canvas dialog or by the Sidebar's Save, every city whose name
\* contained "(Capital of A)" has "(Capital of B)" in its place, no city name
\* contains "(Capital of A)" any more, and the cities whose name did not
\* contain it keep their name.
C15_RenameSweep ==
    last.op \in {"updateElementName", "saveEntity"} =>
      \A j \in 1..Len(last.pre.states), k \in 1..Len(map.states) :
         (/\ last.pre.states[j].id = map.states[k].id
          /\ last.pre.states[j].name # map.states[k].name) =>
            LET A == <<"(Capital of ">> \o last.pre.states[j].name \o <<")">>
                B == <<"(Capital of ">> \o map.states[k].name \o <<")">>
            IN /\ Len(map.cities) = Len(last.pre.cities)
               /\ \A c \in 1..Len(last.pre.cities) :
                     IF Includes(last.pre.cities[c].name, A)
                     THEN /\ ReplacedInPlace(last.pre.cities[c].name,
                                             map.cities[c].name, A, B)
                          /\ ~Includes(map.cities[c].name, A)
                     ELSE map.cities[c].name = last.pre.cities[c].name

---------------------------------------------------------------------------
(* SpecBiome: updateCellBiome on cells of given heights under a given      *)
(* noise.  gen holds the cell arrays, the noise and the cells updated.     *)

MaxBiomeUpdates == 2    \* calls of updateCellBiome in a run

\* heights around the four thresholds and across the range, in thousandths
BiomeHeights == {0, 100, 199, 200, 201, 249, 250, 251, 400, 599, 600, 601,
                 700, 799, 800, 801, 950, 1000}

\* noises whose sample at cell 0 is 0.7, 0.4, 0.15 and 0.149
BiomeNoises == {100, 200, 950, 877}

BiomeInit ==
    /\ map = NoMap
    /\ storage = NoData
    /\ noiseCache = EmptyCache
    /\ ui = InitialUI
    /\ dialog = NoElement
    /\ form = NoEntity
    /\ budget = NoBudget
    /\ last = NoOp
    /\ pc = "biome"
    /\ \E h \in BiomeHeights, noise \in BiomeNoises :
          gen = [cells |-> [heights |-> [i \in Cells |-> h],
                            biomes |-> [i \in Cells |-> BiomeType.OCEAN]],
                 noise2D |-> noise,
                 updated |-> {}]

\* updateCellBiome(map, i, noise2D)
UpdateBiome(i) ==
    /\ pc = "biome"
    /\ Cardinality(gen.updated) < MaxBiomeUpdates
    /\ gen' = [gen EXCEPT !.cells = UpdateCellBiome(gen.cells, i, gen.noise2D),
                          !.updated = @ \cup {i}]
    /\ UNCHANGED <<map, storage, noiseCache, ui, dialog, form, budget, last, pc>>

NextBiome == \E i \in Cells : UpdateBiome(i)

SpecBiome == BiomeInit /\ [][NextBiome]_vars

\* The stored height k stands for the float32 nearest to k/1000.  Stored(k)
\* and Literal(l) place that float32 and the number l/1000 on one scale:
\* the float32 nearest to 0.2, 0.6 and 0.8 lies above the number, 0.25 is a
\* float32.
Stored(k) == 2 * k + (IF k \in {200, 600, 800} THEN 1 ELSE 0)
Literal(l) == 2 * l

\* b is the biome the thresholds give a cell of height h, on the scale of
\* Stored and Literal, and moisture m
Classified(h, m, b) ==
    /\ h < Literal(200) => b = BiomeType.OCEAN
    /\ (h >= Literal(200) /\ h < Literal(250)) => b = BiomeType.BEACH
    /\ h > Literal(800) => b = BiomeType.SNOW
    /\ (h > Literal(600) /\ h <= Literal(800)) => b = BiomeType.MOUNTAIN
    /\ (h >= Literal(250) /\ h <= Literal(600)) =>
         /\ m > 700 => b = BiomeType.DENSE_FOREST
         /\ (m > 400 /\ m <= 700) => b = BiomeType.FOREST
         /\ m < 150 => b = BiomeType.DESERT
         /\ (m >= 150 /\ m <= 400) => b = BiomeType.GRASSLAND
    /\ b \notin {BiomeType.SWAMP, BiomeType.TUNDRA}

\* C18 (biome classification): the biome updateCellBiome sets depends on the
\* height h and the moisture m alone: ocean for h < 0.20, beach for
\* 0.20 <= h < 0.25, snow for h > 0.80, mountain for 0.60 < h <= 0.80, and
\* otherwise dense forest for m > 0.7, forest for 0.4 < m <= 0.7, desert for
\* m < 0.15 and grassland in the remaining case; never swamp or tundra.
C18_BiomeClassification ==
    pc = "biome" =>
      \A i \in gen.updated :
        Classified(Stored(gen.cells.heights[i]), NoiseAt(gen.noise2D, i),
                   gen.cells.biomes[i])

\* a cell of height 0.25 with moisture exactly 0.7 became forest, and a
\* second cell of the same height with another moisture another biome
C18_Witness ==
    /\ pc = "biome"
    /\ \E i, j \in gen.updated :
          /\ gen.cells.heights[i] = 250
          /\ NoiseAt(gen.noise2D, i) = 700
          /\ gen.cells.biomes[i] = BiomeType.FOREST
          /\ gen.cells.biomes[j] # gen.cells.biomes[i]

---------------------------------------------------------------------------
(* The paint tools and the biomes (SpecTools) *)

\* the moisture of cell i in a map: the noise of seed + 1 at the cell's point
MoistureSample(w, i) == NoiseAt(w.seed + 1, i)

\* the cell's centre is within the radius of the located cell's centre
WithinRadius(i, C, R) ==
    LET dx == PointOf[i][1] - PointOf[C][1]
        dy == PointOf[i][2] - PointOf[C][2]
    IN dx * dx + dy * dy <= R * R

\* C19 (height paint and biomes): after a height-paint sample every cell
\* within the radius has the biome the thresholds give its new height and
\* its moisture sample, whatever biome it had, and updating its biome once
\* more changes nothing; every cell outside the radius keeps its biome.
C19_HeightPaintBiomes ==
    (last.op = "height-paint" /\ last.e.cellId # NoCell) =>
      \A i \in Cells :
        IF WithinRadius(i, last.e.cellId, last.radius)
        THEN /\ Classified(Stored(map.cells.heights[i]), MoistureSample(map, i),
                           map.cells.biomes[i])
             /\ UpdateCellBiome(map.cells, i,
                                GetNoise(noiseCache, map.seed).noise2D) = map.cells
        ELSE map.cells.biomes[i] = last.pre.cells.biomes[i]

\* the sample reached a cell whose biome had been painted and a cell whose
\* biome the new height changed, and left a painted cell outside the radius
C19_Witness ==
    /\ last.op = "height-paint" /\ last.e.cellId # NoCell
    /\ \E i \in Cells :
          /\ WithinRadius(i, last.e.cellId, last.radius)
          /\ ~Classified(Stored(last.pre.cells.heights[i]), MoistureSample(map, i),
                         last.pre.cells.biomes[i])
    /\ \E i \in Cells :
          /\ WithinRadius(i, last.e.cellId, last.radius)
          /\ map.cells.heights[i] # last.pre.cells.heights[i]
          /\ Classified(Stored(last.pre.cells.heights[i]), MoistureSample(map, i),
                        last.pre.cells.biomes[i])
          /\ map.cells.biomes[i] # last.pre.cells.biomes[i]
    /\ \E i \in Cells :
          /\ ~WithinRadius(i, last.e.cellId, last.radius)
          /\ ~Classified(Stored(map.cells.heights[i]), MoistureSample(map, i),
                         map.cells.biomes[i])

\* C20 (biome paint frame): a biome-paint sample sets the selected biome on
\* every cell whose centre is within the brush radius of the located cell's
\* centre, and leaves the biome of every other cell, the height, stateId,
\* culture and pop of every cell, the entity collections and the counters
\* as they were.
C20_BiomePaintFrame ==
    (last.op = "biome-paint" /\ last.e.cellId # NoCell) =>
      /\ \A i \in Cells :
            map.cells.biomes[i] = IF WithinRadius(i, last.e.cellId, last.radius)
                                  THEN last.biome
                                  ELSE last.pre.cells.biomes[i]
      /\ map.cells.heights = last.pre.cells.heights
      /\ map.cells.states = last.pre.cells.states
      /\ map.cells.cultures = last.pre.cells.cultures
      /\ map.cells.pop = last.pre.cells.pop
      /\ map.cities = last.pre.cities
      /\ map.castles = last.pre.castles
      /\ map.markers = last.pre.markers
      /\ map.states = last.pre.states
      /\ map.rivers = last.pre.rivers
      /\ map.roads = last.pre.roads
      /\ map.nextId = last.pre.nextId

\* the sample changed the biome of a cell within the radius and left a cell
\* of another biome outside it, on a map with cities, states and a marker
C20_Witness ==
    /\ last.op = "biome-paint" /\ last.e.cellId # NoCell
    /\ \E i \in Cells :
          /\ WithinRadius(i, last.e.cellId, last.radius)
          /\ last.pre.cells.biomes[i] # last.biome
          /\ map.cells.biomes[i] = last.biome
    /\ \E i \in Cells :
          /\ ~WithinRadius(i, last.e.cellId, last.radius)
          /\ map.cells.biomes[i] # last.biome
    /\ Len(map.cities) > 0 /\ Len(map.states) > 0 /\ Len(map.markers) > 0
    /\ \E i \in Cells : map.cells.states[i] # 0

---------------------------------------------------------------------------
(* The pointer events (SpecTools) *)

\* the ToolEvents of the session
PointerEvents == {Pointer(c, altKey) : c \in PointerCells, altKey \in BOOLEAN}

\* a step of handleMouseDown, of handleMouseMove, of either select click
IsMouseDown == \E e \in PointerEvents : MouseDown(e, <<90, 50, 10, 10, 50, 50>>)
IsMouseMove == \E e \in PointerEvents : MouseMove(e)
IsSelectClick == \E type \in {"state", "city"}, k \in 1..NumStates : SelectElement(type, k)

\* C21 (pointer-move acts only during a drag): a pointer-move changes the
\* map only during a drag with a paint tool active, a drag begins with a
\* pointer-down only and ends with the pointer-up or leave; a pointer-move
\* or pointer-up of a placer tool and every pointer event of the select
\* tool leave the map as it was.
C21_MoveOnlyInDrag ==
    [][/\ (IsMouseMove /\ map' # map) =>
             (ui.isDragging /\ ui.activeTool \in PaintTools)
       /\ (~ui.isDragging /\ ui'.isDragging) => IsMouseDown
       /\ MouseUp => ~ui'.isDragging
       /\ (ui.activeTool \notin PaintTools /\ (IsMouseMove \/ MouseUp)) => map' = map
       /\ (ui.activeTool = "select"
             /\ (IsMouseDown \/ IsMouseMove \/ MouseUp \/ IsSelectClick)) => map' = map
      ]_vars

\* a pointer-move of a drag with the height brush changed heights the
\* pointer-down had left
C21_Witness ==
    /\ last.op = "height-paint" /\ last.event = "move"
    /\ ui.isDragging
    /\ last.pre.cells.heights # GenerateHeights(map.seed)
    /\ map.cells.heights # last.pre.cells.heights

---------------------------------------------------------------------------
(* The roads (SpecGen) *)

\* the cells of a road's points
RoadCells(road) ==
    [j \in 1..Len(road.points) |-> CellAt(<<road.points[j].x, road.points[j].y>>)]

\* the cities roads run between
Hubs(w) == {w.cities[k] : k \in {j \in 1..Len(w.cities) :
                                    w.cities[j].type \in {"Capital", "Town"}}}

\* C22 (roads avoid ocean): every road is the cell centers of a path that
\* starts on the cell of one hub and ends on the cell of another, moves
\* between mesh-adjacent cells only, and never steps into a cell of height
\* 0.20 or less.
C22_RoadsAvoidOcean ==
    pc = "done" =>
      \A r \in 1..Len(map.roads) :
        LET path == RoadCells(map.roads[r])
        IN /\ \A j \in 1..Len(path) :
                 PointOf[path[j]] = <<map.roads[r].points[j].x, map.roads[r].points[j].y>>
           /\ \E a, b \in Hubs(map) :
                 a.id # b.id /\ path[1] = a.cellId /\ path[Len(path)] = b.cellId
           /\ \A j \in 1..(Len(path) - 1) :
                 \E n \in 1..Len(DelaunayNeighbors[path[j]]) :
                    DelaunayNeighbors[path[j]][n] = path[j + 1]
           /\ \A j \in 2..Len(path) :
                 Stored(map.cells.heights[path[j]]) > Literal(200)

\* a road of three cells or more beside an ocean cell
C22_Witness ==
    /\ pc = "done"
    /\ \E r \in 1..Len(map.roads) :
          LET path == RoadCells(map.roads[r])
          IN /\ Len(path) >= 3
             /\ \E j \in 1..Len(path) :
                   \E n \in 1..Len(DelaunayNeighbors[path[j]]) :
                      Stored(map.cells.heights[DelaunayNeighbors[path[j]][n]]) <= Literal(200)

\* the cost of the step from a cell to a neighbour: distance x biome
\* penalty + 500 x |height difference|, and none into a cell below 0.20
TraversalCost(cells, from, to) ==
    IF Stored(cells.heights[to]) < Literal(200) THEN Infinity
    ELSE (Dist(from, to) * BiomePenalty(cells.biomes[to])) \div 10
         + 500 * Abs(cells.heights[to] - cells.heights[from])

\* the total cost of a path of cells
RECURSIVE PathCost(_, _)
PathCost(cells, path) ==
    IF Len(path) < 2 THEN 0
    ELSE TraversalCost(cells, path[1], path[2]) + PathCost(cells, Tail(path))

\* the least total cost of the paths from cur to goal that visit no cell
\* twice and none of visited, over the neighbours the search walks;
\* Infinity when there is none
RECURSIVE Cheapest(_, _, _, _)
Cheapest(cells, cur, goal, visited) ==
    IF cur = goal THEN 0
    ELSE LET next == {n \in Cells \ visited :
                        /\ \E k \in 1..Len(VoronoiNeighbors[cur]) : VoronoiNeighbors[cur][k] = n
                        /\ TraversalCost(cells, cur, n) < Infinity}
             Least(costs) == IF costs = {} THEN Infinity
                             ELSE CHOOSE c \in costs : \A d \in costs : c <= d
         IN Least({Min(Infinity, TraversalCost(cells, cur, n)
                                  + Cheapest(cells, n, goal, visited \cup {n})) : n \in next})

---------------------------------------------------------------------------
(* SpecRoad: RoadGenerator.generate on maps with a city on each corner     *)
(* cell, where the cells between the upper corners are ocean, plain or     *)
(* mountain.                                                               *)

RoadLevels == {150, 300, 700}   \* ocean, grassland, mountain
OpenCells == {1, 2, 4, 5, 6, 7} \* the cells whose level varies

\* the cities: the ids 2 and 10 sort as strings to "10", "2"
RoadCities(third, fourth) ==
    << [id |-> 1, cellId |-> 0, name |-> <<"Bel", "mark">>, type |-> "Capital"],
       [id |-> 2, cellId |-> 3, name |-> <<"Nor", "ton">>, type |-> "Town"],
       [id |-> 10, cellId |-> 8, name |-> <<"Sun", "port">>, type |-> third],
       [id |-> 11, cellId |-> 11, name |-> <<"wen", "ford">>, type |-> fourth] >>

RoadInit ==
    /\ map = NoMap
    /\ storage = NoData
    /\ noiseCache = EmptyCache
    /\ ui = InitialUI
    /\ dialog = NoElement
    /\ form = NoEntity
    /\ budget = NoBudget
    /\ last = NoOp
    /\ pc = "hubs"
    /\ \E level \in [OpenCells -> RoadLevels],
          third \in {"Capital", "Village"}, fourth \in {"Town", "Village"} :
          LET heights == [i \in Cells |-> IF i \in OpenCells THEN level[i] ELSE 300]
          IN gen = [cells |-> [heights |-> heights,
                               biomes |-> [i \in Cells |-> Biome(heights[i], 300)]],
                    cities |-> RoadCities(third, fourth),
                    roads |-> <<>>]

\* RoadGenerator.generate(map, cities)
BuildRoads ==
    /\ pc = "hubs"
    /\ gen' = [gen EXCEPT !.roads = GenerateRoads(gen.cells, gen.cities)]
    /\ pc' = "built"
    /\ UNCHANGED <<map, storage, noiseCache, ui, dialog, form, budget, last>>

NextRoad == BuildRoads

SpecRoad == RoadInit /\ [][NextRoad]_vars

\* b is one of the two hubs nearest to a: fewer than two others are as near
AmongTwoNearest(w, a, b) ==
    Cardinality({c \in Hubs(w) : c.id \notin {a.id, b.id}
                                 /\ Dist(a.cellId, c.cellId) <= Dist(a.cellId, b.cellId)}) < 2

\* the road of w between the cells of a and b, if any
Joined(w, a, b) ==
    \E r \in 1..Len(w.roads) :
       LET path == RoadCells(w.roads[r])
       IN {path[1], path[Len(path)]} = {a.cellId, b.cellId}

\* C23 (shortest path): every road has the least total cost of the paths
\* from its first cell to its last, and two hubs of which one is among the
\* two nearest of the other have a road between them when a path of finite
\* cost joins them, and none when no path does.
C23_ShortestPath ==
    pc = "built" =>
      /\ \A r \in 1..Len(gen.roads) :
            LET path == RoadCells(gen.roads[r])
                Least(cost) == cost < Infinity /\ cost = PathCost(gen.cells, path)
            IN /\ Len(path) >= 2
               /\ Least(Cheapest(gen.cells, path[1], path[Len(path)], {path[1]}))
      /\ \A a, b \in Hubs(gen) :
            LET Decides(least) == (least < Infinity) <=> Joined(gen, a, b)
            IN (a.id # b.id /\ AmongTwoNearest(gen, a, b)) =>
                  Decides(Cheapest(gen.cells, a.cellId, b.cellId, {a.cellId}))

\* a road that goes round a mountain by more steps than the straight way
\* has, on a map where two hubs have no road as the ocean parts them
C23_Witness ==
    /\ pc = "built"
    /\ \E r \in 1..Len(gen.roads) :
          LET path == RoadCells(gen.roads[r])
          IN /\ Len(path) - 1 > (Abs(PointOf[path[1]][1] - PointOf[path[Len(path)]][1]) \div 6
                                 + Abs(PointOf[path[1]][2] - PointOf[path[Len(path)]][2]) \div 8)
             /\ \E i \in Cells : gen.cells.biomes[i] = BiomeType.MOUNTAIN
    /\ \E a, b \in Hubs(gen) :
          a.id # b.id /\ AmongTwoNearest(gen, a, b) /\ ~Joined(gen, a, b)

\* fewer than two other hubs are nearer to a than b is
NearAsTwoNearest(w, a, b) ==
    Cardinality({c \in Hubs(w) : c.id \notin {a.id, b.id}
                                 /\ Dist(a.cellId, c.cellId) < Dist(a.cellId, b.cellId)}) < 2

\* the ids in a road's id, `road-${id}`
RoadEnds(road) == {road.id[2], road.id[3]}

\* C24 (road graph shape): every road joins two distinct hubs, cities of
\* type Capital or Town, of which one is among the two hubs nearest to the
\* other; no two roads join the same pair, the key of a pair being the same
\* in both orders; and there are at most twice as many roads as hubs.
C24_RoadGraphShape ==
    pc = "built" =>
      /\ \A r \in 1..Len(gen.roads) :
            \E a, b \in Hubs(gen) :
               /\ a.id # b.id
               /\ a.type \in {"Capital", "Town"} /\ b.type \in {"Capital", "Town"}
               /\ RoadEnds(gen.roads[r]) = {a.id, b.id}
               /\ LET path == RoadCells(gen.roads[r])
                  IN {path[1], path[Len(path)]} = {a.cellId, b.cellId}
               /\ NearAsTwoNearest(gen, a, b) \/ NearAsTwoNearest(gen, b, a)
      /\ \A r, q \in 1..Len(gen.roads) :
            r # q => RoadEnds(gen.roads[r]) # RoadEnds(gen.roads[q])
      /\ \A k, j \in 1..Len(gen.cities) :
            ConnectionId(gen.cities[k].id, gen.cities[j].id)
              = ConnectionId(gen.cities[j].id, gen.cities[k].id)
      /\ Len(gen.roads) <= 2 * Cardinality(Hubs(gen))

\* three hubs and a village: three roads, one of them between the hubs 2 and
\* 10, whose key has the 10 first, and none to the village
C24_Witness ==
    /\ pc = "built"
    /\ Cardinality(Hubs(gen)) = 3
    /\ \E k \in 1..Len(gen.cities) : gen.cities[k].type = "Village"
    /\ Len(gen.roads) = 3
    /\ \E r \in 1..Len(gen.roads) : gen.roads[r].id = <<"road", 10, 2>>

---------------------------------------------------------------------------
(* SpecScatter: the town and village loops of CityGenerator.generate on    *)
(* maps of up to some thousands of cells, after the capitals.              *)

ScatterSizes == {12, 1400, 2700, 4100}  \* the numbers of cells
ScatterSeeds == 1..15

\* the heights of a map of n cells: every third cell is ocean, cell 1 is
\* at 0.2 as stored
ScatterHeights(n) ==
    [i \in 0..(n - 1) |-> IF i % 3 = 0 THEN 120
                          ELSE IF i = 1 THEN 200
                          ELSE 210 + ((37 * i) % 700)]

\* the capitals generate has placed: none, one, or two
ScatterCapitals ==
    LET Capital(id, cellId) ==
            [id |-> id, cellId |-> cellId,
             name |-> <<"Bel", "mark", " ">> \o CapitalMarker(<<"Nor", "ton">>),
             population |-> 20000, type |-> "Capital"]
    IN { [cities |-> <<>>, nextId |-> 1, pos |-> 0],
         [cities |-> <<Capital(1, 1)>>, nextId |-> 2, pos |-> 4],
         [cities |-> <<Capital(1, 7), Capital(2, 11)>>, nextId |-> 3, pos |-> 8] }

ScatterInit ==
    /\ map = NoMap
    /\ storage = NoData
    /\ noiseCache = EmptyCache
    /\ ui = InitialUI
    /\ dialog = NoElement
    /\ form = NoEntity
    /\ budget = NoBudget
    /\ last = NoOp
    /\ pc = "capitals"
    /\ \E n \in ScatterSizes, seed \in ScatterSeeds, caps \in ScatterCapitals :
          gen = [numCells |-> n, seed |-> seed, capitals |-> caps, cities |-> caps.cities]

\* "2. Place Towns" and "3. Place Villages"
PlaceSettlements ==
    /\ pc = "capitals"
    /\ gen' = [gen EXCEPT !.cities =
                 ScatterOn([k \in 1..gen.numCells |-> k - 1], ScatterHeights(gen.numCells),
                           gen.capitals, gen.seed).cities]
    /\ pc' = "settled"
    /\ UNCHANGED <<map, storage, noiseCache, ui, dialog, form, budget, last>>

NextScatter == PlaceSettlements

SpecScatter == ScatterInit /\ [][NextScatter]_vars

\* C25 (settlement scatter): with L the number of land cells, generate adds
\* floor(L / 1000) towns and then twice as many villages, fewer only when
\* the land cells without a city run out; the towns come before the
\* villages, each settlement is on a land cell, and no two cities, the
\* capitals among them, are on the same cell.
C25_SettlementScatter ==
    pc = "settled" =>
      LET heights == ScatterHeights(gen.numCells)
          L == Cardinality({i \in 0..(gen.numCells - 1) : Stored(heights[i]) > Literal(200)})
          caps == Len(gen.capitals.cities)
          added == SubSeq(gen.cities, caps + 1, Len(gen.cities))
          towns == Min(L \div 1000, L - caps)
          villages == Min(2 * (L \div 1000), L - caps - towns)
      IN /\ SubSeq(gen.cities, 1, caps) = gen.capitals.cities
         /\ Len(added) = towns + villages
         /\ \A k \in 1..Len(added) :
               /\ added[k].type = IF k <= towns THEN "Town" ELSE "Village"
               /\ added[k].cellId \in 0..(gen.numCells - 1)
               /\ Stored(heights[added[k].cellId]) > Literal(200)
         /\ \A j, k \in 1..Len(gen.cities) :
               j # k => gen.cities[j].cellId # gen.cities[k].cellId

\* two towns and four villages beside two capitals
C25_Witness ==
    /\ pc = "settled"
    /\ Len(gen.capitals.cities) = 2
    /\ Len(SelectSeq(gen.cities, LAMBDA c : c.type = "Town")) = 2
    /\ Len(SelectSeq(gen.cities, LAMBDA c : c.type = "Village")) = 4

---------------------------------------------------------------------------
(* The seed cells of the states (SpecGen) *)

C27_GrowthMaximal ==
    (pc = "growth" /\ gen.growth.done) =>
      /\ \A i \in Cells :
            (map.cells.states[i] = 0 /\ Stored(map.cells.heights[i]) > Literal(200)) =>
               \A n \in 1..Len(DelaunayNeighbors[i]) :
                  map.cells.states[DelaunayNeighbors[i][n]] = 0
      /\ \A i \in Cells :
            map.cells.states[i] # 0 => Stored(map.cells.heights[i]) > Literal(200)

---------------------------------------------------------------------------
(* SpecSync: a session that paints, places, edits in the dialog and in the *)
(* Sidebar, deletes and changes the seed.                                  *)

\* the dialog's colour input on a state: onChange
UpdateElementColor(w, el, color) ==
    IF ~el.live THEN w
    ELSE [w EXCEPT !.states = [k \in 1..Len(w.states) |->
             IF w.states[k].id = el.id
             THEN [w.states[k] EXCEPT !.color = color]
             ELSE w.states[k]]]

DialogColor(color) ==
    /\ pc = "ready" /\ dialog # NoElement /\ dialog.type = "state"
    /\ map' = UpdateElementColor(map, dialog, color)
    /\ storage' = Serialize(map')
    /\ dialog' = [dialog EXCEPT !.data.color = color]
    /\ budget' = [budget EXCEPT !.edited = budget.edited + 1]
    /\ last' = [op |-> "updateElementColor", pre |-> map]
    /\ UNCHANGED <<noiseCache, ui, form, pc, gen>>

NextSync ==
    \/ Mount
    \/ \E t \in {"select", "height-paint", "city-placer"} : SetActiveTool(t)
    \/ SetLayer("political")
    \/ /\ budget.painted + budget.placed < MaxToolEvents
       /\ MouseDown(Pointer(11, FALSE), <<90, 50, 10, 10, 50, 50>>)
    \/ budget.painted + budget.placed < MaxToolEvents /\ MouseMove(Pointer(5, FALSE))
    \/ MouseUp
    \/ SelectElement("state", 1)
    \/ budget.edited < MaxEdited /\ DialogRename(<<"Nova">>)
    \/ budget.edited < MaxEdited /\ DialogColor("#102030")
    \/ DialogDelete
    \/ DialogDone
    \/ StartEditing("city", 1)
    \/ budget.edited < MaxEdited /\ SetEditFormName(<<"Port Allan">>)
    \/ SaveEntityClick
    \/ DeleteEntityClick("city", 1)
    \/ SetMapSeed(8)

SpecSync == SessionInit /\ [][NextSync]_vars

\* C28 (the stored world stays in sync): whenever no drag is in progress the
\* stored payload is the serialization of the map, so that a reload from the
\* store gives the map with every committed change.
C28_StoredInSync ==
    (map # NoMap /\ ~ui.isDragging) =>
      /\ storage = Serialize(map)
      /\ SavedFields(Load(storage)) = SavedFields(map)

\* after a paint stroke, a placement, a rename and a deletion the map,
\* unlike the generated one in heights, cities and states, is the stored one
C28_Witness ==
    /\ map # NoMap /\ ~ui.isDragging
    /\ last.op \in {"saveEntity", "updateElementName", "deleteEntity", "deleteElement"}
    /\ map.cells.heights # GenerateHeights(map.seed)
    /\ map.nextId.city > Len(Generate(map.seed, EmptyCache).cities) + 1
    /\ storage = Serialize(map)

---------------------------------------------------------------------------
(* SpecLand: a session that places cities and castles and paints heights,  *)
(* on the low land of cell 7 and on the high land of cell 5.               *)

NextLand ==
    \/ Mount
    \/ \E t \in {"height-paint", "city-placer", "castle-placer"} : SetActiveTool(t)
    \/ \E intensity \in BrushIntensities : SetBrushIntensity(intensity)
    \/ \E c \in {5, 7}, altKey \in BOOLEAN :
          /\ budget.painted + budget.placed < MaxToolEvents
          /\ MouseDown(Pointer(c, altKey), <<90, 50, 10, 10, 50, 50>>)
    \/ \E c \in {5, 7}, altKey \in BOOLEAN :
          /\ budget.painted + budget.placed < MaxToolEvents
          /\ MouseMove(Pointer(c, altKey))
    \/ MouseUp

SpecLand == SessionInit /\ [][NextLand]_vars


\* C29 (entities stay on land): every city and every castle of the map is
\* on a cell whose height is at least 0.20.
C29_EntitiesOnLand ==
    map # NoMap =>
      /\ \A k \in 1..Len(map.cities) :
            Stored(map.cells.heights[map.cities[k].cellId]) >= Literal(SeaLevel)
      /\ \A k \in 1..Len(map.castles) :
            Stored(map.cells.heights[map.castles[k].cellId]) >= Literal(SeaLevel)

---------------------------------------------------------------------------
(* SpecEditors: the canvas dialog and the Sidebar's edit row open on the   *)
(* same map; the names are typed in the dialog, the edit row changes the   *)
(* population of a city.                                                   *)

\* the edit row's population input of a city:
\* setEditForm({ ...editForm, population })
SetEditFormPopulation(population) ==
    /\ pc = "ready" /\ ~ui.isDragging
    /\ EditRowShown /\ form.type = "city"
    /\ form.editForm.population # population
    /\ form' = [form EXCEPT !.editForm.population = population]
    /\ last' = NoOp
    /\ UNCHANGED <<map, storage, noiseCache, ui, dialog, budget, pc, gen>>

NextEditors ==
    \/ Mount
    \/ SetLayer("political")
    \/ \E type \in {"state", "city"} : SelectElement(type, 1)
    \/ \E newName \in UserNames : budget.edited < MaxEdited /\ DialogRename(newName)
    \/ DialogDelete
    \/ DialogDone
    \/ \E type \in {"state", "city"} : StartEditing(type, 1)
    \/ SetEditFormPopulation(5000)
    \/ CancelEditing
    \/ SaveEntityClick
    \/ \E type \in {"state", "city"} : DeleteEntityClick(type, 1)

SpecEditors == SessionInit /\ [][NextEditors]_vars

\* the entities of a kind whose id is the given one
StoredUnder(w, type, id) ==
    {k \in 1..Len(KindOf(w, type)) : KindOf(w, type)[k].id = id}

\* C30 (no lost update between the two editors): a Save of the edit row,
\* whose name input was not typed into, leaves the name of every city and of
\* every state as it was; and a rename in the canvas dialog gives the new
\* name to the entity the map holds under the dialog's kind and id.
C30_NoLostUpdate ==
    [][/\ SaveEntityClick =>
             \A type \in {"city", "state"} :
                [k \in 1..Len(KindOf(map', type)) |-> KindOf(map', type)[k].name]
                  = [k \in 1..Len(KindOf(map, type)) |-> KindOf(map, type)[k].name]
       /\ \A newName \in UserNames :
             DialogRename(newName) =>
                \A k \in StoredUnder(map, dialog.type, dialog.id) :
                   KindOf(map', dialog.type)[k].name = newName
      ]_vars

============================================================================
